---- MODULE Spec2Model ----
(***************************************************************************)
(* A model of cattlecloud/memc: the memcached client (client.go, verbs.go) *)
(* and its per-server idle connection pools (iopool/pool.go).              *)
(*                                                                         *)
(* Three specifications share the state:                                   *)
(*   PoolSpec  the iopool package driven directly, one caller, any order   *)
(*             of pool.get, pool.free, Buffer.SetHealth and pool.close     *)
(*             (what iopool's own tests do);                               *)
(*   Spec      one Client, one goroutine calling the verbs (Set, Add, Get, *)
(*             Delete, Increment, Decrement) and Close one after another;  *)
(*   ConcSpec  one Client used by several goroutines at once, each inside  *)
(*             Client.do(key, f) or Client.Close, every pool access made   *)
(*             under Client.lock.                                          *)
(***************************************************************************)
EXTENDS Integers, Sequences, FiniteSets, TLC

\* ---------------------------------------------------------------- bounds
\* number of connections the dial function hands out before it only fails
MaxConns == 2
\* largest idle-connection cap a Client / pool is constructed with
MaxIdle == 1
\* number of goroutines calling into the one Client
NumThreads == 2
\* largest value a counter on the server is incremented to
MaxCount == 3
\* largest number of pools pick is applied to
MaxPools == 3

Threads == 1..NumThreads

\* ------------------------------------------------------ program constants
\* iopool/pool.go: const closed = -1
closed == -1
\* time.Second, in the model's time unit of 100ms
Second == 10
\* client.go: defaultExpiration = 1 * time.Hour
defaultExpiration == 3600 * Second
\* client.go: keyRe allows 1 to 250 characters
KeyMax == 250
\* iopool/pool.go: x := byte(37)
PickSeed == 37
\* client.go: 2_592_000 seconds, the 30 days of Client.seconds, a method
\* that Set and Add do not call
ThirtyDays == 2592000
\* bufio.NewReader: a buffer of the default size
ReaderSize == 4096

\* ----------------------------------------------------------------- errors
nil == "nil"
ErrKeyNotValid == "ErrKeyNotValid"
ErrExpiration == "ErrExpiration"
ErrNegativeInc == "ErrNegativeInc"
ErrNotStored == "ErrNotStored"
ErrConflict == "ErrConflict"
ErrCacheMiss == "ErrCacheMiss"
ErrNotFound == "ErrNotFound"
ErrNonNumeric == "ErrNonNumeric"
\* iopool.ErrClientClosed, the value pool.get returns
ErrClientClosed == "iopool.ErrClientClosed"
\* memc.ErrClientClosed: another errors.New value, with the same text
MemcErrClientClosed == "memc.ErrClientClosed"
\* the error of a failed dial (net.Dialer.DialContext)
ErrDial == "dial error"
\* the error of a failed Write, Flush or Read on the socket
ErrTransport == "transport error"
\* bufio.ErrBufferFull: a reply line longer than the reader's buffer
ErrBufferFull == "bufio.ErrBufferFull"
\* fmt.Errorf("... unexpected response ...")
ErrUnexpected == "unexpected response"
\* the error of a fmt.Sscanf that does not match the header of a value
ErrScan == "scan error"
\* not an error value: the function panics (a slice of negative length, an
\* index out of range)
ErrPanic == "panic"
\* the error of gob's Decode
ErrGob == "gob error"
\* the error of gob's Encode
ErrEncode == "gob encode error"

\* ------------------------------------------------------------------- keys
\* A key is a run-length encoded string: a sequence of runs [c, n] meaning
\* the character with code c repeated n times.
Rep(c, n) == [c |-> c, n |-> n]

RECURSIVE KeyLen(_)
KeyLen(key) ==
    IF key = <<>> THEN 0 ELSE Head(key).n + KeyLen(Tail(key))

KeyChars(key) == {key[i].c : i \in DOMAIN key}

\* the characters of the regexp class \s (RE2): \t \n \f \r and space
ReSpace == {9, 10, 12, 13, 32}

\* keyRe = `^[^\s]{1,250}$`
keyRe(key) ==
    /\ KeyLen(key) >= 1
    /\ KeyLen(key) <= KeyMax
    /\ KeyChars(key) \cap ReSpace = {}

check(key) == IF ~keyRe(key) THEN ErrKeyNotValid ELSE nil

RECURSIVE Xor(_, _)
Xor(a, b) ==
    IF a = 0 THEN b
    ELSE IF b = 0 THEN a
    ELSE (((a % 2) + (b % 2)) % 2) + 2 * Xor(a \div 2, b \div 2)

\* x ^= byte(c) for every character of the key, starting from x
RECURSIVE XorFold(_, _)
XorFold(x, key) ==
    IF key = <<>> THEN x
    ELSE XorFold(IF (Head(key).n % 2) = 1 THEN Xor(x, Head(key).c % 256) ELSE x,
                 Tail(key))

\* pick without the loop over the key
pickSeedOnly(key, n) ==
    IF n = 1 THEN 0 ELSE PickSeed % n

\* pick with the accumulator starting from 0
pickNoSeed(key, n) ==
    IF n = 1 THEN 0 ELSE XorFold(0, key) % n

\* Collection.pick: index (from 0) of the pool that owns key, among n pools
pick(key, n) ==
    IF n = 1 THEN 0 ELSE XorFold(PickSeed, key) % n

\* the bytes of the character with code c in a Go string (UTF-8)
Utf8(c) ==
    IF c < 128 THEN <<c>>
    ELSE IF c < 2048 THEN <<192 + (c \div 64), 128 + (c % 64)>>
    ELSE IF c < 65536
         THEN <<224 + (c \div 4096), 128 + ((c \div 64) % 64), 128 + (c % 64)>>
    ELSE <<240 + (c \div 262144), 128 + ((c \div 4096) % 64),
           128 + ((c \div 64) % 64), 128 + (c % 64)>>

\* the bytes of a key
RECURSIVE KeyBytes(_)
KeyBytes(key) ==
    IF key = <<>> THEN <<>>
    ELSE IF Head(key).n = 0 THEN KeyBytes(Tail(key))
    ELSE Utf8(Head(key).c)
         \o KeyBytes(<<Rep(Head(key).c, Head(key).n - 1)>> \o Tail(key))

KeyA == <<Rep(97, 1)>>
KeyB == <<Rep(98, 1)>>
KeyLong == <<Rep(97, KeyMax)>>
KeyTooLong == <<Rep(97, KeyMax + 1)>>
KeyEmpty == <<>>
KeySpace == <<Rep(97, 1), Rep(32, 1)>>
\* "a", a vertical tab and "b"
KeyVT == <<Rep(97, 1), Rep(11, 1), Rep(98, 1)>>
\* "a", a no-break space (U+00A0) and "b"
KeyNBSP == <<Rep(97, 1), Rep(160, 1), Rep(98, 1)>>
\* 126 times "e" with an acute accent (U+00E9): 126 characters, 252 bytes
KeyAccents == <<Rep(233, 126)>>

Keys == {KeyA, KeyB, KeyLong, KeyTooLong, KeyEmpty, KeySpace, KeyVT, KeyNBSP,
         KeyAccents}

\* keys the concurrent callers use: one per pool of a two-pool Client
DoKeys == {KeyA, KeyB}

\* keys the caller of ServerSpec uses: "a", and the key with the no-break
\* space, which check lets pass
ServerKeys == {KeyA, KeyNBSP}

\* "foo" and "bar", the keys of TestPools_pick; "e" with an acute accent
\* (U+00E9) and the character U+65E5, keys that are not ASCII
KeyFoo == <<Rep(102, 1), Rep(111, 2)>>
KeyBar == <<Rep(98, 1), Rep(97, 1), Rep(114, 1)>>
KeyAccent == <<Rep(233, 1)>>
KeyCJK == <<Rep(26085, 1)>>
\* the character U+1F600, of four bytes
KeyEmoji == <<Rep(128512, 1)>>

\* keys pick is applied to
PickKeys == {KeyA, KeyB, KeyFoo, KeyBar, KeyLong, KeyAccent, KeyCJK,
             KeyEmoji, KeyA \o KeyAccent}

\* ------------------------------------------------------------------ verbs
Verbs == {"Set", "Add", "Get", "Delete", "Increment", "Decrement"}

\* expirations a Set / Add is called with (the TTL option)
TTLs == {0, Second \div 2, 0 - Second, Second}
\* deltas an Increment / Decrement is called with
Deltas == {0 - 1, 0, 2}

Args(verb) ==
    IF verb \in {"Set", "Add"} THEN TTLs
    ELSE IF verb \in {"Increment", "Decrement"} THEN Deltas
    ELSE {0}

\* A reading of the clock c.now: whole seconds since the Unix epoch (sec)
\* and the fraction of a second, in the model's time unit (sub).
Time(sec, sub) == [sec |-> sec, sub |-> sub]

\* the clock of the Clients of Spec, ConcSpec and ServerSpec
Clock == Time(1700000000, 0)

\* seconds: the number sent as the expiration of an item. Set and Add call
\* this package function; it reads no clock and has no case for
\* expirations beyond 30 days. int(expiration.Seconds()) drops the fraction.
seconds(expiration) ==
    IF expiration = 0 THEN [s |-> 0, err |-> nil]
    ELSE IF expiration < 1 * Second THEN [s |-> 0, err |-> ErrExpiration]
    ELSE [s |-> expiration \div Second, err |-> nil]

\* Set, Add: the header line the verb's function writes first,
\* "<cmd> <key> <flags> <exptime> <bytes>\r\n", as its fields; nothing is
\* written when seconds fails
header(cmd, key, flags, expiration, encoding) ==
    IF seconds(expiration).err # nil
    THEN [err |-> seconds(expiration).err, written |-> FALSE]
    ELSE [err |-> nil, written |-> TRUE, cmd |-> cmd, key |-> key,
          flags |-> flags, exptime |-> seconds(expiration).s,
          bytes |-> Len(encoding)]

\* what the socket does during one exchange
IOResults == {"ok", "write fails", "flush fails", "read fails"}

\* ---------------------------------------------------------- reply bytes
\* A reply is the sequence of bytes the connection's reader yields; the
\* literals of verbs.go are spelled out as their ASCII codes.
CR == 13
LF == 10
SP == 32

\* "STORED\r\n"
STORED ==
    <<83, 84, 79, 82, 69, 68, 13, 10>>

\* "NOT_STORED\r\n"
NOT_STORED ==
    <<78, 79, 84, 95, 83, 84, 79, 82, 69, 68, 13, 10>>

\* "EXISTS\r\n"
EXISTS ==
    <<69, 88, 73, 83, 84, 83, 13, 10>>

\* "END\r\n"
END ==
    <<69, 78, 68, 13, 10>>

\* "DELETED\r\n"
DELETED ==
    <<68, 69, 76, 69, 84, 69, 68, 13, 10>>

\* "NOT_FOUND\r\n"
NOT_FOUND ==
    <<78, 79, 84, 95, 70, 79, 85, 78, 68, 13, 10>>

\* "VALUE", the first word of the header getPayload expects
VALUE ==
    <<86, 65, 76, 85, 69>>

\* the text Increment and Decrement look for in a reply
NonNumericText ==
    <<99, 97, 110, 110, 111, 116, 32, 105, 110, 99, 114, 101, 109, 101,
      110, 116, 32, 111, 114, 32, 100, 101, 99, 114, 101, 109, 101, 110,
      116, 32, 110, 111, 110, 45, 110, 117, 109, 101, 114, 105, 99, 32,
      118, 97, 108, 117, 101>>

\* "CLIENT_ERROR ", the prefix memcached puts before an error text
CLIENT_ERROR ==
    <<67, 76, 73, 69, 78, 84, 95, 69, 82, 82, 79, 82, 32>>

\* "ERROR\r\n", the reply of memcached to a command it does not know
ERROR ==
    <<69, 82, 82, 79, 82, 13, 10>>


\* the least number of S, none when S is empty
Least(S, none) ==
    IF S = {} THEN none ELSE CHOOSE q \in S : \A j \in S : q <= j

\* bytes.IndexByte from position i on: the position of the first b in r,
\* 0 when there is none
IndexOf(r, b, i) == Least({q \in i..Len(r) : r[q] = b}, 0)

\* bufio.Reader.ReadSlice('\n') on a reader of ReaderSize bytes (NewReader
\* in newBuffer) that yields r and then fails: the bytes up to and including
\* the first LF, and what is left. A line with no LF among its first
\* ReaderSize bytes fills the buffer: those bytes are returned with
\* bufio.ErrBufferFull. When the stream ends before an LF, the bytes read
\* are returned with the error of the read.
ReadSlice(r) ==
    LET cut(n) ==
          IF n \in 1..ReaderSize
          THEN [ok |-> TRUE, line |-> SubSeq(r, 1, n),
                rest |-> SubSeq(r, n + 1, Len(r)), err |-> nil]
          ELSE IF Len(r) >= ReaderSize
          THEN [ok |-> FALSE, line |-> SubSeq(r, 1, ReaderSize),
                rest |-> SubSeq(r, ReaderSize + 1, Len(r)),
                err |-> ErrBufferFull]
          ELSE [ok |-> FALSE, line |-> r, rest |-> <<>>, err |-> ErrTransport]
    IN cut(IndexOf(r, LF, 1))

\* the text an unexpected-response error carries: the reply, quoted
unexpected(response) == response

\* ----------------------------------------------------------- parsing
\* the white space of one byte: \t \n \v \f \r and space
Spaces == {9, 10, 11, 12, 13, 32}
Digits == 48..57

\* unicode.IsSpace on the character that starts at s[i]: the number of its
\* bytes when it is white space, 0 when it is not. Beyond the bytes of
\* Spaces these are U+0085 and U+00A0 (C2 85, C2 A0), U+1680 (E1 9A 80),
\* U+2000 to U+200A, U+2028, U+2029, U+202F (E2 80 ..), U+205F (E2 81 9F)
\* and U+3000 (E3 80 80).
SpaceLen(s, i) ==
    LET a == s[i]
        b == IF i + 1 <= Len(s) THEN s[i + 1] ELSE 0
        c == IF i + 2 <= Len(s) THEN s[i + 2] ELSE 0
    IN IF a \in Spaces THEN 1
       ELSE IF a = 194 /\ b \in {133, 160} THEN 2
       ELSE IF \/ a = 225 /\ b = 154 /\ c = 128
               \/ a = 226 /\ b = 128 /\ c \in (128..138) \cup {168, 169, 175}
               \/ a = 226 /\ b = 129 /\ c = 159
               \/ a = 227 /\ b = 128 /\ c = 128
            THEN 3
       ELSE 0

\* s[q] is a byte of a white-space character that starts at p or later
InSpace(s, p, q) ==
    \E i \in (IF q - 2 > p THEN q - 2 ELSE p)..q : SpaceLen(s, i) > q - i

\* strings.TrimSpace: s without the white space at its two ends
TrimLeft(s) ==
    SubSeq(s, Least({q \in 1..Len(s) : ~InSpace(s, 1, q)}, Len(s) + 1),
           Len(s))

TrimRight(s) ==
    SubSeq(s, 1,
           Len(s) - Least({Len(s) - q : q \in {j \in 1..Len(s) :
                                                ~InSpace(s, 1, j)}},
                          Len(s)))

TrimSpace(s) == TrimRight(TrimLeft(s))

\* strings.Contains(s, sub)
Contains(s, sub) ==
    \E i \in 1..(Len(s) - Len(sub) + 1) :
      SubSeq(s, i, i + Len(sub) - 1) = sub

IsDigits(w) == w # <<>> /\ \A i \in DOMAIN w : w[i] \in Digits

\* the value of a run of decimal digits
RECURSIVE Decimal(_)
Decimal(w) ==
    IF w = <<>> THEN 0
    ELSE 10 * Decimal(SubSeq(w, 1, Len(w) - 1)) + (w[Len(w)] - 48)

\* w without its leading zeros
StripZeros(w) ==
    SubSeq(w, Least({q \in 1..(Len(w) - 1) : w[q] # 48}, Len(w)), Len(w))

\* "18446744073709551615", the digits of 1<<64 - 1
MaxUint64 ==
    <<49, 56, 52, 52, 54, 55, 52, 52, 48, 55, 51, 55, 48, 57, 53, 53, 49, 54,
      49, 53>>

\* "9223372036854775807", the digits of 1<<63 - 1
MaxInt64 ==
    <<57, 50, 50, 51, 51, 55, 50, 48, 51, 54, 56, 53, 52, 55, 55, 53, 56, 48,
      55>>

\* digit strings of one length: a is not above b
RECURSIVE DigitsLeq(_, _)
DigitsLeq(a, b) ==
    IF a = <<>> THEN TRUE
    ELSE IF Head(a) # Head(b) THEN Head(a) < Head(b)
    ELSE DigitsLeq(Tail(a), Tail(b))

\* the digits w are a value not above the one of the digits max
InRange(w, max) ==
    \/ Len(StripZeros(w)) < Len(max)
    \/ /\ Len(StripZeros(w)) = Len(max)
       /\ DigitsLeq(StripZeros(w), max)

\* strconv.ParseUint(w, 10, 64): digits only, no sign, a range error
\* beyond 1<<64 - 1
ParseUint(w) ==
    IF IsDigits(w) /\ InRange(w, MaxUint64) THEN [ok |-> TRUE, u |-> Decimal(w)]
    ELSE [ok |-> FALSE, u |-> 0]

\* strconv.ParseInt(w, 10, 64) for the digits w after the sign: -(1<<63) is
\* in range, 1<<63 is not
ParseInt(neg, w) ==
    IF /\ IsDigits(w)
       /\ \/ InRange(w, MaxInt64)
          \/ neg /\ StripZeros(w) = SubSeq(MaxInt64, 1, 18) \o <<56>>
    THEN [ok |-> TRUE, n |-> IF neg THEN 0 - Decimal(w) ELSE Decimal(w)]
    ELSE [ok |-> FALSE, n |-> 0]

\* fmt, SkipSpace: the position after the white space at p, as far as a
\* newline
SkipBlank(b, p) ==
    Least({q \in p..Len(b) : b[q] = LF \/ ~InSpace(b, p, q)}, Len(b) + 1)

\* fmt, a space of the format: the input at p is white space other than a
\* newline, or has ended; all the white space up to a newline is passed.
\* The result is the position after it, 0 when the input does not match.
ScanSpace(b, p) ==
    IF p <= Len(b) /\ (b[p] = LF \/ SpaceLen(b, p) = 0) THEN 0
    ELSE SkipBlank(b, p)

\* utf8.DecodeRune at s[i]: the number of bytes of the character that starts
\* there, 0 when the bytes from s[i] on are no encoding of a character (a
\* byte that only continues one, an encoding cut short or longer than
\* needed, a surrogate, a value above U+10FFFF)
RuneLen(s, i) ==
    LET at(k) == IF i + k <= Len(s) THEN s[i + k] ELSE 0
        second(a) == IF a = 224 THEN 160..191
                     ELSE IF a = 237 THEN 128..159
                     ELSE IF a = 240 THEN 144..191
                     ELSE IF a = 244 THEN 128..143
                     ELSE 128..191
        len(a) ==
          IF a < 128 THEN 1
          ELSE IF a \in 194..223 /\ at(1) \in 128..191 THEN 2
          ELSE IF a \in 224..239 /\ at(1) \in second(a) /\ at(2) \in 128..191
          THEN 3
          ELSE IF /\ a \in 240..244 /\ at(1) \in second(a)
                  /\ at(2) \in 128..191 /\ at(3) \in 128..191
          THEN 4
          ELSE 0
    IN len(s[i])

\* the characters of b from q to e - 1 as fmt reads them (ReadRune) and
\* writes them to its buffer (writeRune): a byte that starts no character and
\* belongs to none is read as U+FFFD and written as EF BF BD
Runes(b, q, e) ==
    LET bad(j) == /\ RuneLen(b, j) = 0
                  /\ ~\E i \in (IF j - 3 > q THEN j - 3 ELSE q)..(j - 1) :
                        RuneLen(b, i) > j - i
        before(j) == (j - q) + 2 * Cardinality({i \in q..(j - 1) : bad(i)})
        byte(k, j) == IF bad(j) THEN <<239, 191, 189>>[k - before(j)]
                      ELSE b[j]
    IN IF \A j \in q..(e - 1) : ~bad(j) THEN SubSeq(b, q, e - 1)
       ELSE [k \in 1..before(e) |->
               byte(k, CHOOSE j \in q..(e - 1) :
                         before(j) < k /\ k <= before(j + 1))]

\* the verb %s of fmt.Sscanf at p: after the white space, the characters
\* up to the next white space; it fails at the end of the input and at a
\* newline (next is 0)
ScanString(b, p) ==
    LET word(q, e) == [s |-> Runes(b, q, e), next |-> e]
        from(q) ==
          IF q > Len(b) \/ b[q] = LF THEN [s |-> <<>>, next |-> 0]
          ELSE word(q, Least({e \in q..Len(b) : SpaceLen(b, e) > 0},
                             Len(b) + 1))
    IN from(SkipBlank(b, p))

\* the verb %d of fmt.Sscanf at p: after the white space, one sign if there
\* is one, then at least one of the bytes 0 to 9 and _, as many as follow,
\* handed to strconv.ParseInt, which takes no _ (next is 0 when it fails)
ScanInt(b, p) ==
    LET number(i, e) == [n |-> i.n, next |-> IF i.ok THEN e ELSE 0]
        digits(q, d, e) == number(ParseInt(b[q] = 45, SubSeq(b, d, e - 1)), e)
        signed(q, d) ==
          digits(q, d, Least({e \in d..Len(b) : b[e] \notin Digits \cup {95}},
                             Len(b) + 1))
        from(q) ==
          IF q > Len(b) \/ b[q] = LF THEN [n |-> 0, next |-> 0]
          ELSE signed(q, IF b[q] \in {43, 45} THEN q + 1 ELSE q)
    IN from(SkipBlank(b, p))

\* the format "VALUE %s %d %d\r\n" as fmt takes it apart: the text VALUE,
\* spaces, verbs, and the newline with the white space before it
Format == <<"VALUE", " ", "%s", " ", "%d", " ", "%d", "\n">>

\* fmt's doScanf from position p of the input b on, with the values out
\* scanned so far: the text of the format is the next bytes of the input;
\* at the newline of the format the input has white space, then a newline
\* or its end
RECURSIVE doScanf(_, _, _, _)
doScanf(b, format, p, out) ==
    IF p = 0 THEN [ok |-> FALSE, out |-> <<>>]
    ELSE IF format = <<>> THEN [ok |-> TRUE, out |-> out]
    ELSE CASE Head(format) = "VALUE" ->
                doScanf(b, Tail(format),
                        IF /\ p + Len(VALUE) - 1 <= Len(b)
                           /\ SubSeq(b, p, p + Len(VALUE) - 1) = VALUE
                        THEN p + Len(VALUE) ELSE 0,
                        out)
           [] Head(format) = " " ->
                doScanf(b, Tail(format), ScanSpace(b, p), out)
           [] Head(format) = "%s" ->
                doScanf(b, Tail(format), ScanString(b, p).next,
                        Append(out, ScanString(b, p).s))
           [] Head(format) = "%d" ->
                doScanf(b, Tail(format), ScanInt(b, p).next,
                        Append(out, ScanInt(b, p).n))
           [] OTHER ->
                doScanf(b, Tail(format),
                        IF \/ SkipBlank(b, p) > Len(b)
                           \/ b[SkipBlank(b, p)] = LF
                        THEN SkipBlank(b, p) + 1 ELSE 0,
                        out)

\* fmt.Sscanf(string(b), "VALUE %s %d %d\r\n", &key, &flags, &size). The
\* numbers are those the model's integers hold.
Sscanf(b) ==
    LET scanned(r) ==
          IF r.ok
          THEN [ok |-> TRUE, key |-> r.out[1], flags |-> r.out[2],
                size |-> r.out[3]]
          ELSE [ok |-> FALSE, key |-> <<>>, flags |-> 0, size |-> 0]
    IN scanned(doScanf(b, Format, 1, <<>>))

\* ----------------------------------------------------------- encoding
\* A value is a byte sequence ([]byte, string), an integer, or a person. The
\* integers of the model run from -(1<<31) to 1<<31 - 1: a value of a 64-bit
\* type is one of these, and so is a value of uint32.
Min32 == (0 - 2147483647) - 1
Max32 == 2147483647

ByteTypes == {"[]byte", "string"}
IntTypes == {"int8", "uint8", "int16", "uint16", "int32", "uint32", "int64",
             "uint64", "int", "uint"}
\* person and *person of the tests, which take the default branch
GobTypes == {"person", "*person"}
Types == ByteTypes \cup IntTypes \cup GobTypes
\* a channel type, which takes the default branch as well: gob has no
\* encoding for a channel, Encode returns an error and writes nothing
ChanTypes == {"chan int"}
\* a channel, the one value of the channel type that is given to Set and Add
Channel == [chan |-> "int"]

\* the number of bytes encode makes for an integer type
Size(T) ==
    CASE T \in {"int8", "uint8"} -> 1
      [] T \in {"int16", "uint16"} -> 2
      [] T \in {"int32", "uint32"} -> 4
      [] OTHER -> 8

IsSigned(T) == T \in {"int8", "int16", "int32", "int64", "int"}

\* byte(u >> (8 * i)) for u the conversion of v to the unsigned type: the
\* byte i of the two's complement of v
ByteOf(v, i) ==
    IF i < 4 THEN (v \div (256 ^ i)) % 256
    ELSE IF v < 0 THEN 255 ELSE 0

\* the bytes in big-endian order
PutUintBig(v, w) == [i \in 1..w |-> ByteOf(v, w - i)]

\* binary.LittleEndian.PutUint16 / PutUint32 / PutUint64 into w bytes, and
\* byte(v) for w = 1
PutUint(v, w) == [i \in 1..w |-> ByteOf(v, i - 1)]

\* encoding/gob, for the type person struct { Name string; Age int }: the
\* message that describes the type (36 bytes after its length), then the
\* message of the value: its length, the type id, then each field that is
\* not zero as the distance from the field before it and its value, then 0
PersonType ==
    <<36, 127, 3, 1, 1, 6, 112, 101, 114, 115, 111, 110, 1, 255, 128, 0, 1, 2,
      1, 4, 78, 97, 109, 101, 1, 12, 0, 1, 3, 65, 103, 101, 1, 4, 0, 0, 0>>

\* the type id gob gives person, the first type a new Encoder defines
PersonId == 64

Person(name, age) == [Name |-> name, Age |-> age]

\* gob's unsigned integer: one byte below 128; otherwise the negated count
\* of the bytes that hold it, as a byte, then those bytes, the high one
\* first
gobUint(n) ==
    LET k == IF n < 256 THEN 1
             ELSE IF n < 65536 THEN 2
             ELSE IF n < 16777216 THEN 3
             ELSE 4
    IN IF n < 128 THEN <<n>>
       ELSE <<256 - k>> \o [i \in 1..k |-> (n \div (256 ^ (k - i))) % 256]

\* gob's signed integer i, for i from -(1<<30) to 1<<30 - 1: the bits of i
\* moved up by one, complemented when i is negative, with the sign as the
\* lowest bit
gobInt(i) == gobUint(IF i < 0 THEN 2 * ((0 - i) - 1) + 1 ELSE 2 * i)

gobValue(v) ==
    gobInt(PersonId)
    \o (IF v.Name = <<>> THEN <<>>
        ELSE <<1>> \o gobUint(Len(v.Name)) \o v.Name)
    \o (IF v.Age = 0 THEN <<>>
        ELSE <<(IF v.Name = <<>> THEN 2 ELSE 1)>> \o gobInt(v.Age))
    \o <<0>>

\* gob.NewEncoder(buf).Encode(item)
gobEncode(v) ==
    [b |-> PersonType \o gobUint(Len(gobValue(v))) \o gobValue(v),
     err |-> nil]

\* encode(item) for an item of dynamic type T
encode(T, v) ==
    IF T \in ByteTypes THEN [b |-> v, err |-> nil]
    ELSE IF T \in IntTypes THEN [b |-> PutUint(v, Size(T)), err |-> nil]
    ELSE IF T \in ChanTypes THEN [b |-> <<>>, err |-> ErrEncode]
    ELSE gobEncode(v)

\* binary.LittleEndian.Uint16 / Uint32 / Uint64 of the first w bytes of b,
\* and b[0] for w = 1
RECURSIVE Uint(_, _)
Uint(b, w) == IF w = 0 THEN 0 ELSE b[1] + 256 * Uint(Tail(b), w - 1)

\* the bytes from the fifth to byte w are all e
Extends(b, w, e) == \A i \in 5..w : b[i] = e

\* the unsigned value of the first w bytes is one the model's integers hold
FitsUnsigned(b, w) == Extends(b, w, 0) /\ (w >= 4 => b[4] < 128)

\* the signed value of the first w bytes is one the model's integers hold
FitsSigned(b, w) ==
    IF b[w] >= 128 THEN Extends(b, w, 255) /\ (w > 4 => b[4] >= 128)
    ELSE FitsUnsigned(b, w)

\* the least significant bytes that carry the value, four at most
Low(w) == IF w < 4 THEN w ELSE 4

\* the conversion to the signed type without the two's complement: the sign
\* bit dropped
ToIntNoSign(b, w) ==
    IF b[w] >= 128
    THEN Uint(b, Low(w) - 1) + (b[Low(w)] - 128) * (256 ^ (Low(w) - 1))
    ELSE Uint(b, Low(w))

\* the conversion int8(b[0]), int16(u), int32(u), int64(u), int(u): the
\* value of the first w bytes as a two's complement
ToInt(b, w) ==
    IF b[w] >= 128
    THEN Uint(b, Low(w) - 1) + (b[Low(w)] - 256) * (256 ^ (Low(w) - 1))
    ELSE Uint(b, Low(w))

\* a value beyond the integers of the model, kept as its bytes
Wide(b, w) == [wide |-> SubSeq(b, 1, w)]

\* gob's decodeUint at position p of m: the value v and the position after
\* it; ok is FALSE when m ends too early or the count of bytes is above 8.
\* big tells a value beyond the integers of the model, given as its bytes.
readUint(m, p) ==
    LET none == [ok |-> FALSE, big |-> FALSE, v |-> 0, bytes |-> <<>>,
                 next |-> 0]
        k == 256 - m[p]
        at(i) == IF i <= k THEN m[p + k + 1 - i] ELSE 0
    IN IF p < 1 \/ p > Len(m) THEN none
       ELSE IF m[p] < 128
       THEN [ok |-> TRUE, big |-> FALSE, v |-> m[p], bytes |-> <<m[p]>>,
             next |-> p + 1]
       ELSE IF k > 8 \/ p + k > Len(m) THEN none
       ELSE IF (\E i \in 5..k : at(i) # 0) \/ at(4) >= 128
       THEN [ok |-> TRUE, big |-> TRUE, v |-> Max32,
             bytes |-> SubSeq(m, p + 1, p + k), next |-> p + k + 1]
       ELSE [ok |-> TRUE, big |-> FALSE,
             v |-> at(1) + 256 * at(2) + 65536 * at(3) + 16777216 * at(4),
             bytes |-> SubSeq(m, p + 1, p + k), next |-> p + k + 1]

\* decodeInt of an unsigned integer u the model holds: the lowest bit is the
\* sign
toInt(u) == IF u % 2 = 1 THEN (0 - (u \div 2)) - 1 ELSE u \div 2

\* A type of the wire, as decoding needs it: its kind, the fields of a
\* struct (each a name and the id of its type), the id of the type of the
\* elements of an array, a slice or a map, of the keys of a map, and the
\* length of an array
Ty(kind, fields, elem, key, len) ==
    [kind |-> kind, fields |-> fields, elem |-> elem, key |-> key,
     len |-> len]

Basic(kind) == Ty(kind, <<>>, 0, 0, 0)

Field(name, id) == [name |-> name, id |-> id]

\* gob's own types, which describe a type on the wire: wireType {ArrayT,
\* SliceT, StructT, MapT, GobEncoderT, BinaryMarshalerT, TextMarshalerT},
\* arrayType {CommonType, Elem, Len}, CommonType {Name, Id}, sliceType
\* {CommonType, Elem}, structType {CommonType, Field}, fieldType {Name, Id},
\* []fieldType, mapType {CommonType, Key, Elem} and gobEncoderType
\* {CommonType}. They are kept under negative ids, apart from the ids a
\* message can name; 0 - 2 is a typeId, an int32, and 0 - 3 the int that
\* is the length of an array.
wireSchema(id) ==
    LET F(t) == Field(<<>>, t)
        struct(fs) == Ty("struct", fs, 0, 0, 0)
    IN CASE id = 0 - 16 ->
              struct(<<F(0 - 17), F(0 - 19), F(0 - 20), F(0 - 23), F(0 - 24),
                       F(0 - 24), F(0 - 24)>>)
         [] id = 0 - 17 -> struct(<<F(0 - 18), F(0 - 2), F(0 - 3)>>)
         [] id = 0 - 18 -> struct(<<F(6), F(0 - 2)>>)
         [] id = 0 - 19 -> struct(<<F(0 - 18), F(0 - 2)>>)
         [] id = 0 - 20 -> struct(<<F(0 - 18), F(0 - 22)>>)
         [] id = 0 - 21 -> struct(<<F(6), F(0 - 2)>>)
         [] id = 0 - 22 -> Ty("slice", <<>>, 0 - 21, 0, 0)
         [] id = 0 - 23 -> struct(<<F(0 - 18), F(0 - 2), F(0 - 2)>>)
         [] id = 0 - 24 -> struct(<<F(0 - 18)>>)
         [] id = 0 - 2 -> Basic("typeId")
         [] id = 0 - 3 -> Basic("len")
         [] OTHER -> Basic("undefined")

\* field i of a decoded struct s: its value, or zero when the message did
\* not send it
fieldOr(s, i, zero) == IF s[i].set THEN s[i].v ELSE zero

\* wire.StructT.Field of a decoded wireType w
fieldsOf(w) ==
    LET field(f) == Field(fieldOr(f, 1, <<>>), fieldOr(f, 2, 0))
        list(fs) == [i \in DOMAIN fs |-> field(fs[i])]
    IN IF w[3].set THEN list(fieldOr(w[3].v, 2, <<>>)) ELSE <<>>

\* the type of id among the types defs the messages have defined so far:
\* bool, int, uint, float, []byte, string, complex and interface have the
\* ids 1 to 8; a type of the wire is looked at as decIgnoreOpFor does,
\* ArrayT first, then MapT, SliceT, StructT and the three encoder types
typeOf(defs, id) ==
    LET user(w) ==
          IF w[1].set
          THEN Ty("array", <<>>, fieldOr(w[1].v, 2, 0), 0,
                  fieldOr(w[1].v, 3, [i \in 1..8 |-> 0]))
          ELSE IF w[4].set
          THEN Ty("map", <<>>, fieldOr(w[4].v, 3, 0), fieldOr(w[4].v, 2, 0),
                  0)
          ELSE IF w[2].set
          THEN Ty("slice", <<>>, fieldOr(w[2].v, 2, 0), 0, 0)
          ELSE IF w[3].set THEN Ty("struct", fieldsOf(w), 0, 0, 0)
          ELSE IF w[5].set \/ w[6].set \/ w[7].set THEN Basic("bytes")
          ELSE Basic("undefined")
    IN IF id < 0 THEN wireSchema(id)
       ELSE IF id \in {1, 3, 4} THEN Basic("uint")
       ELSE IF id = 2 THEN Basic("int")
       ELSE IF id \in {5, 6} THEN Basic("bytes")
       ELSE IF id = 7 THEN Basic("complex")
       ELSE IF id = 8 THEN Basic("interface")
       ELSE IF id \in DOMAIN defs THEN user(defs[id])
       ELSE Basic("undefined")

\* decIgnoreOpFor(id): the values of the type can be skipped. seen holds
\* the types already under way, for a type that contains itself.
RECURSIVE decIgnoreOpFor(_, _, _)
decIgnoreOpFor(defs, id, seen) ==
    LET for(ty) ==
          CASE ty.kind \in {"array", "slice"} ->
                 decIgnoreOpFor(defs, ty.elem, seen \cup {id})
            [] ty.kind = "map" ->
                 /\ decIgnoreOpFor(defs, ty.key, seen \cup {id})
                 /\ decIgnoreOpFor(defs, ty.elem, seen \cup {id})
            [] ty.kind = "struct" ->
                 \A i \in DOMAIN ty.fields :
                    /\ ty.fields[i].name # <<>>
                    /\ decIgnoreOpFor(defs, ty.fields[i].id, seen \cup {id})
            [] OTHER -> ty.kind # "undefined"
    IN id \in seen \/ for(typeOf(defs, id))

\* the names of the fields of person, as bytes
NameField == <<78, 97, 109, 101>>

AgeField == <<65, 103, 101>>

\* compileDec(remoteId, person): the fields of the struct the id names on
\* the wire, and whether person can take them: a field of the wire is given
\* to the field of person with its name, a string for Name and an int for
\* Age, and is skipped when person has no such field. Of gob's own types
\* CommonType (18) and fieldType (21) are structs of fields that can be
\* skipped, a string Name and an int Id.
compileDec(defs, id) ==
    LET own == <<Field(NameField, 6), Field(<<73, 100>>, 2)>>
        user == id \in DOMAIN defs /\ defs[id][3].set
        fields == IF id \in {18, 21} THEN own
                  ELSE IF user THEN fieldsOf(defs[id])
                  ELSE <<>>
        fits(f) == /\ f.name # <<>>
                   /\ IF f.name = NameField THEN f.id = 6
                      ELSE IF f.name = AgeField THEN f.id = 2
                      ELSE decIgnoreOpFor(defs, f.id, {})
        matched(fs) == \E i \in DOMAIN fs : fs[i].name \in {NameField, AgeField}
        compiled(fs) ==
          [ok |-> /\ id \in {18, 21} \/ user
                  /\ \A i \in DOMAIN fs : fits(fs[i])
                  /\ (user /\ fs # <<>>) => matched(fs),
           fields |-> fs]
    IN compiled(fields)

\* The state of a Decoder over the bytes b of the payload: the buffer
\* dec.buf holds b[p..end], what is left of the message read last; the
\* reader dec.r stands at after, where the next message begins; defs are
\* the types received so far (dec.wireType); bad tells that dec.err is set
\* while decoding goes on.
decoderState(p, end, after, defs, bad) ==
    [p |-> p, end |-> end, after |-> after, defs |-> defs, bad |-> bad]

\* the bytes up to the end of the buffer
buffer(b, s) == SubSeq(b, 1, s.end)

\* what a decoder gives: ok, the value v and the state after it. panic
\* tells a run-time panic, which is no gobError: catchError panics with it
\* again, and it leaves Decode.
decoded(ok, v, s) == [ok |-> ok, v |-> v, s |-> s, panic |-> FALSE]

\* an index out of the range of the instructions of an engine
panicked(v, s) == [ok |-> FALSE, v |-> v, s |-> s, panic |-> TRUE]

\* what is left of a decoding when the part x of it failed: v in the state
\* s, by an error or by the panic of x
failed(x, v, s) == [ok |-> FALSE, v |-> v, s |-> s, panic |-> x.panic]

\* a struct of n fields before one is decoded
noFields(n) == [i \in 1..n |-> [set |-> FALSE, v |-> 0]]

\* the 64 bits of the unsigned integer d that readUint gives, as 8 bytes,
\* the low one first
uint64Of(d) ==
    [i \in 1..8 |->
       IF i <= Len(d.bytes) THEN d.bytes[Len(d.bytes) - i + 1] ELSE 0]

\* decodeInt: the 64 bits of the signed integer d stands for, as 8 bytes,
\* the low one first: the bits of d moved down by one, complemented when
\* the lowest bit of d is set
int64Of(d) ==
    LET x(u, i) ==
          (u[i] \div 2) + (IF i < 8 THEN (u[i + 1] % 2) * 128 ELSE 0)
        int(u) ==
          [i \in 1..8 |-> IF u[1] % 2 = 1 THEN 255 - x(u, i) ELSE x(u, i)]
    IN int(uint64Of(d))

\* typeId(x) for the int64 x that d stands for: the low 32 bits of x, as an
\* int32
int32Of(d) ==
    LET low(x) == x[1] + 256 * x[2] + 65536 * x[3] + 16777216 * (x[4] % 128)
        typeId(x) == IF x[4] >= 128 THEN (low(x) - Max32) - 1 ELSE low(x)
    IN typeId(int64Of(d))

\* Decoder.recvMessage: the count of the bytes of the next message, then
\* the message, which dec.r must hold in full
recvMessage(b, s) ==
    LET message(n) ==
          IF ~n.ok \/ n.big \/ n.next + n.v - 1 > Len(b)
          THEN [ok |-> FALSE, s |-> s]
          ELSE [ok |-> TRUE,
                s |-> [s EXCEPT !.p = n.next, !.end = n.next + n.v - 1,
                                !.after = n.next + n.v]]
    IN message(readUint(b, s.after))

\* The operations of a Decoder call one another: the operation of an
\* instruction of an engine (instr.op, which decOpFor and decIgnoreOpFor
\* chose for the type of a field, an element or a key) decodes a struct, an
\* array, a map or the value of an interface, whose own instructions run
\* operations in turn, and a type is received by decoding a wireType.
\* decOp is such an operation by its name, on its arguments.
RECURSIVE decOp(_, _)
RECURSIVE decodeStruct(_, _, _, _, _, _)
RECURSIVE ignoreStruct(_, _, _, _, _)
RECURSIVE decodeArrayHelper(_, _, _, _, _, _)
RECURSIVE ignoreMap(_, _, _, _, _)
RECURSIVE decodeTypeSequence(_, _, _)

\* the value of the type id in the buffer of the decoder state s. An int
\* beyond the integers of the model is kept as its bytes; a typeId is an
\* int32 (decInt32 refuses what is beyond it), and one below 0, which names
\* no type, is kept as 0, which names none; the length of an array is kept
\* as its 64 bits; a complex is two numbers; a string, a []byte and what a
\* GobEncoder wrote are a length and as many bytes; an array comes with its
\* length, a slice and a map with their counts. A slice of gob's own types
\* is decoded (decodeSlice), and a count beyond the input is an error; a
\* slice, an array or a map of a type of the wire is skipped (ignoreSlice,
\* ignoreArray, ignoreMap), and a count from 1<<63 is an int below 0, for
\* which nothing is skipped.
decValue(b, defs, id, s) ==
    LET fail == decoded(FALSE, 0, s)
        to(q) == [s EXCEPT !.p = q]
        uint(d) == decoded(d.ok, 0, to(d.next))
        int(d) == decoded(d.ok,
                          IF d.big THEN [wide |-> d.bytes] ELSE toInt(d.v),
                          to(d.next))
        len(d) == decoded(d.ok, int64Of(d), to(d.next))
        named(d, t) ==
          decoded(d.ok /\ \A i \in 1..(Len(d.bytes) - 4) : d.bytes[i] = 0,
                  IF t < 0 THEN 0 ELSE t,
                  to(d.next))
        typeId(d) == named(d, int32Of(d))
        complex(d) == IF d.ok THEN uint(readUint(buffer(b, s), d.next))
                      ELSE fail
        bytes(d) ==
          IF ~d.ok \/ d.big \/ d.next + d.v - 1 > s.end THEN fail
          ELSE decoded(TRUE, SubSeq(b, d.next, d.next + d.v - 1),
                       to(d.next + d.v))
        count(d) == IF d.big THEN Max32 ELSE d.v
        elements(ty, d, n) ==
          decOp("decodeArrayHelper",
                <<b, defs, ty.elem, to(d.next), n, <<>>>>)
        slice(ty, d) ==
          IF ~d.ok THEN fail
          ELSE IF id < 0
          THEN IF d.big THEN fail ELSE elements(ty, d, d.v)
          ELSE IF uint64Of(d)[8] >= 128 THEN decoded(TRUE, <<>>, to(d.next))
          ELSE elements(ty, d, count(d))
        array(ty, d) ==
          IF ~d.ok \/ uint64Of(d) # ty.len THEN fail
          ELSE IF ty.len[8] >= 128 THEN decoded(TRUE, <<>>, to(d.next))
          ELSE elements(ty, d, count(d))
        map(ty, d) ==
          IF ~d.ok THEN fail
          ELSE IF uint64Of(d)[8] >= 128 THEN decoded(TRUE, 0, to(d.next))
          ELSE decOp("ignoreMap", <<b, defs, ty, to(d.next), count(d)>>)
        of(ty, d) ==
          CASE ty.kind = "uint" -> uint(d)
            [] ty.kind = "int" -> int(d)
            [] ty.kind = "len" -> len(d)
            [] ty.kind = "typeId" -> typeId(d)
            [] ty.kind = "complex" -> complex(d)
            [] ty.kind = "bytes" -> bytes(d)
            [] ty.kind = "interface" -> decOp("ignoreInterface", <<b, s>>)
            [] ty.kind = "struct" ->
                 IF id < 0
                 THEN decOp("decodeStruct",
                            <<b, defs, ty.fields, s, 0,
                              noFields(Len(ty.fields))>>)
                 ELSE decOp("ignoreStruct", <<b, defs, ty.fields, s, 0>>)
            [] ty.kind = "slice" -> slice(ty, d)
            [] ty.kind = "array" -> array(ty, d)
            [] ty.kind = "map" -> map(ty, d)
            [] OTHER -> fail
    IN of(typeOf(defs, id), readUint(buffer(b, s), s.p))

\* decodeStruct: for state.b.Len() > 0, the distance delta to the next
\* field, which ends the struct when it is 0 and is an error when it is
\* below 0 as an int or leads beyond the last field (the test subtracts,
\* state.fieldnum >= len(engine.instr)-delta, and cannot overflow), then
\* the value of that field. v holds the fields decoded so far, and is what
\* an error leaves. fieldnum counts the fields from 1, and is 0 before the
\* first.
decodeStruct(b, defs, fields, s, fieldnum, v) ==
    LET field(i, x) ==
          IF ~x.ok THEN failed(x, v, s)
          ELSE decodeStruct(b, defs, fields, x.s, i,
                            [v EXCEPT ![i] = [set |-> TRUE, v |-> x.v]])
        delta(d) ==
          IF ~d.ok \/ d.big THEN decoded(FALSE, v, s)
          ELSE IF d.v = 0 THEN decoded(TRUE, v, [s EXCEPT !.p = d.next])
          ELSE IF fieldnum + d.v > Len(fields) THEN decoded(FALSE, v, s)
          ELSE field(fieldnum + d.v,
                     decOp("decValue", <<b, defs, fields[fieldnum + d.v].id,
                                         [s EXCEPT !.p = d.next]>>))
    IN IF s.p > s.end THEN decoded(TRUE, v, s)
       ELSE delta(readUint(buffer(b, s), s.p))

\* ignoreStruct, for a struct that is skipped: as decodeStruct, but the
\* distance is added to the number of the field before the sum is tested
\* (fieldnum := state.fieldnum + delta; fieldnum >= len(engine.instr)).
\* After a field that is not the first of its type, a distance of at most
\* 1<<63 - 1 and so near it that the sum is beyond 1<<63 - 1 gives an int
\* below 0, which the test lets pass: engine.instr[fieldnum] panics.
ignoreStruct(b, defs, fields, s, fieldnum) ==
    LET field(i, x) ==
          IF ~x.ok THEN failed(x, 0, s)
          ELSE ignoreStruct(b, defs, fields, x.s, i)
        short(u) ==
          (255 - u[1]) + 256 * (255 - u[2]) + 65536 * (255 - u[3])
        overflows(u) ==
          /\ u[8] = 127
          /\ \A i \in 4..7 : u[i] = 255
          /\ short(u) < fieldnum - 1
        delta(d) ==
          IF ~d.ok THEN decoded(FALSE, 0, s)
          ELSE IF d.big
          THEN IF overflows(uint64Of(d)) THEN panicked(0, s)
               ELSE decoded(FALSE, 0, s)
          ELSE IF d.v = 0 THEN decoded(TRUE, 0, [s EXCEPT !.p = d.next])
          ELSE IF fieldnum + d.v > Len(fields) THEN decoded(FALSE, 0, s)
          ELSE field(fieldnum + d.v,
                     decOp("decValue", <<b, defs, fields[fieldnum + d.v].id,
                                         [s EXCEPT !.p = d.next]>>))
    IN IF s.p > s.end THEN decoded(TRUE, 0, s)
       ELSE delta(readUint(buffer(b, s), s.p))

\* decodeArrayHelper and ignoreArrayHelper: n elements, each from a buffer
\* that has bytes left
decodeArrayHelper(b, defs, elem, s, n, acc) ==
    LET element(x) ==
          IF ~x.ok THEN failed(x, 0, s)
          ELSE decodeArrayHelper(b, defs, elem, x.s, n - 1, Append(acc, x.v))
    IN IF n = 0 THEN decoded(TRUE, acc, s)
       ELSE IF s.p > s.end THEN decoded(FALSE, 0, s)
       ELSE element(decOp("decValue", <<b, defs, elem, s>>))

\* ignoreMap: n times a key and an element. A key and an element that take
\* no byte, two structs at the end of the buffer, take none the next time.
ignoreMap(b, defs, ty, s, n) ==
    LET element(x) ==
          IF ~x.ok THEN failed(x, 0, s)
          ELSE IF x.s = s THEN decoded(TRUE, 0, s)
          ELSE ignoreMap(b, defs, ty, x.s, n - 1)
        key(k) ==
          IF ~k.ok THEN failed(k, 0, s)
          ELSE element(decOp("decValue", <<b, defs, ty.elem, k.s>>))
    IN IF n = 0 THEN decoded(TRUE, 0, s)
       ELSE key(decOp("decValue", <<b, defs, ty.key, s>>))

\* the person a value of the fields of the wire leaves: the field Name and
\* the field Age of the wire, where the message sent them
personOf(fields, v) ==
    LET sent(name) == {i \in DOMAIN fields :
                         fields[i].name = name /\ v[i].set}
        last(S) == CHOOSE i \in S : \A j \in S : j <= i
        get(S, zero) == IF S = {} THEN zero ELSE v[last(S)].v
    IN Person(get(sent(NameField), <<>>), get(sent(AgeField), 0))

\* Decoder.decodeValue(id, &person) in the state s: no field is decoded
\* when the type of the wire does not fit person, and an error or a panic
\* while decoding leaves the fields decoded before it
decodeValue(b, id, s) ==
    LET result(fields, x) ==
          [v |-> personOf(fields, x.v),
           err |-> IF x.panic THEN ErrPanic
                   ELSE IF x.ok /\ ~x.s.bad THEN nil
                   ELSE ErrGob]
        with(c) ==
          IF ~c.ok THEN [v |-> Person(<<>>, 0), err |-> ErrGob]
          ELSE result(c.fields,
                      decodeStruct(b, s.defs, c.fields, s, 0,
                                   noFields(Len(c.fields))))
    IN with(compileDec(s.defs, id))

\* Decoder.decodeTypeSequence(isInterface) and recvType in the state s:
\* while dec.err is nil, a message is received when the buffer is empty,
\* and the buffer gives an id (nextInt: when it cannot, dec.err is set and
\* the id is 0). An id that is not negative is the type of the value that
\* follows. A negative id defines the type of that number, which is new and
\* not below the first id of a user's type, by a wireType; what the buffer
\* holds after it is an error, but inside the value of an interface, where
\* it is the count of a value, which is skipped.
decodeTypeSequence(b, s, isInterface) ==
    LET none == [ok |-> FALSE, id |-> 0, s |-> s]
        count(x, d) ==
          IF ~d.ok THEN none
          ELSE decodeTypeSequence(b, [x EXCEPT !.p = d.next], isInterface)
        next(x) ==
          IF x.p > x.end THEN decodeTypeSequence(b, x, isInterface)
          ELSE IF ~isInterface THEN none
          ELSE count(x, readUint(buffer(b, x), x.p))
        defined(tid, w) ==
          IF ~w.ok THEN none
          ELSE next([w.s EXCEPT !.defs = (tid :> w.v) @@ @])
        recvType(x, tid) ==
          IF tid < PersonId \/ tid \in DOMAIN x.defs THEN none
          ELSE defined(tid, decOp("decValue", <<b, x.defs, 0 - 16, x>>))
        left(x) ==
          IF x.p > x.end THEN x.p
          ELSE IF 256 - b[x.p] > 8 THEN x.p + 1
          ELSE x.end + 1
        id(x, d, t) ==
          IF ~d.ok
          THEN [ok |-> TRUE, id |-> 0,
                s |-> [x EXCEPT !.p = left(x), !.bad = TRUE]]
          ELSE IF t >= 0
          THEN [ok |-> TRUE, id |-> t, s |-> [x EXCEPT !.p = d.next]]
          ELSE IF t = Min32 THEN none
          ELSE recvType([x EXCEPT !.p = d.next], 0 - t)
        nextInt(x, d) == id(x, d, int32Of(d))
        message(r) ==
          IF ~r.ok THEN none
          ELSE nextInt(r.s, readUint(buffer(b, r.s), r.s.p))
    IN IF s.bad THEN none
       ELSE message(IF s.p > s.end THEN recvMessage(b, s)
                    ELSE [ok |-> TRUE, s |-> s])

\* ignoreInterface: the length of the name of the concrete type and the
\* name, which is dropped; decodeTypeSequence(true), which receives the
\* types the value defines and gives the id of its type; then the length
\* of the value and the value, which is dropped
ignoreInterface(b, s) ==
    LET fail == decoded(FALSE, 0, s)
        drop(x, d) ==
          IF ~d.ok \/ d.big \/ d.next + d.v - 1 > x.end
          THEN [ok |-> FALSE, s |-> x]
          ELSE [ok |-> TRUE, s |-> [x EXCEPT !.p = d.next + d.v]]
        getLength(x) == drop(x, readUint(buffer(b, x), x.p))
        value(x) == decoded(x.ok, 0, x.s)
        type(t) == IF ~t.ok THEN fail ELSE value(getLength(t.s))
        name(x) ==
          IF ~x.ok THEN fail
          ELSE type(decodeTypeSequence(b, x.s, TRUE))
    IN name(getLength(s))

\* the operation of the name op on the arguments a
decOp(op, a) ==
    CASE op = "decValue" -> decValue(a[1], a[2], a[3], a[4])
      [] op = "decodeStruct" ->
           decodeStruct(a[1], a[2], a[3], a[4], a[5], a[6])
      [] op = "ignoreStruct" -> ignoreStruct(a[1], a[2], a[3], a[4], a[5])
      [] op = "decodeArrayHelper" ->
           decodeArrayHelper(a[1], a[2], a[3], a[4], a[5], a[6])
      [] op = "ignoreMap" -> ignoreMap(a[1], a[2], a[3], a[4], a[5])
      [] op = "ignoreInterface" -> ignoreInterface(a[1], a[2])

\* gob.NewDecoder(buf).Decode(&result) for a person or a *person: the
\* types, then the value when dec.err is nil
gobDecode(b) ==
    LET value(t) ==
          IF ~t.ok \/ t.s.bad THEN [v |-> Person(<<>>, 0), err |-> ErrGob]
          ELSE decodeValue(b, t.id, t.s)
    IN value(decodeTypeSequence(b, decoderState(1, 0, 1, <<>>, FALSE),
                                FALSE))

\* decode[T](b): b[0] and binary.LittleEndian.UintN(b) panic on a b shorter
\* than the type, and read the first bytes of a longer one; a panic of
\* Decode leaves decode, which returns nothing of what was decoded
decode(T, b) ==
    IF T \in ByteTypes THEN [v |-> b, err |-> nil]
    ELSE IF T \in IntTypes
    THEN IF Len(b) < Size(T) THEN [v |-> 0, err |-> ErrPanic]
         ELSE IF IsSigned(T)
         THEN [v |-> IF FitsSigned(b, Size(T)) THEN ToInt(b, Size(T))
                     ELSE Wide(b, Size(T)),
               err |-> nil]
         ELSE [v |-> IF FitsUnsigned(b, Size(T)) THEN Uint(b, Low(Size(T)))
                     ELSE Wide(b, Size(T)),
               err |-> nil]
    ELSE IF T \in ChanTypes THEN [v |-> <<>>, err |-> ErrGob]
    ELSE LET returned(r) ==
               IF r.err = ErrPanic
               THEN [v |-> Person(<<>>, 0), err |-> ErrPanic]
               ELSE r
         IN returned(gobDecode(b))

\* --------------------------------------------------- reply classification
\* Every operator below takes what the verb's function has read or can read
\* from the connection and gives the error it returns.

\* Set: switch string(line)
SetReply(line) ==
    IF line = STORED THEN nil
    ELSE IF line = NOT_STORED THEN ErrNotStored
    ELSE ErrUnexpected

\* Add with the switch of Set
AddReplyAsSet(line) == SetReply(line)

\* Add: switch string(line)
AddReply(line) ==
    IF line = STORED THEN nil
    ELSE IF line = NOT_STORED THEN ErrNotStored
    ELSE IF line = EXISTS THEN ErrConflict
    ELSE ErrUnexpected

fail(err) == [payload |-> <<>>, err |-> err, text |-> <<>>]

\* getPayload(r): the payload and the error; text is what an
\* unexpected-response error carries
getPayload(r) ==
    LET closing(payload, t) ==
          IF ~t.ok THEN fail(t.err)
          ELSE IF t.line # END
          THEN [payload |-> <<>>, err |-> ErrUnexpected,
                text |-> unexpected(t.line)]
          ELSE [payload |-> payload, err |-> nil, text |-> <<>>]
        data(h, s) ==
          IF ~s.ok THEN fail(ErrScan)
          ELSE IF s.size + 2 < 0 THEN fail(ErrPanic)
          ELSE IF Len(h.rest) < s.size + 2 THEN fail(ErrTransport)
          ELSE IF s.size < 0 THEN fail(ErrPanic)
          ELSE closing(SubSeq(h.rest, 1, s.size),
                       ReadSlice(SubSeq(h.rest, s.size + 3, Len(h.rest))))
        first(h) ==
          IF ~h.ok THEN fail(h.err)
          ELSE IF h.line = END THEN fail(ErrCacheMiss)
          ELSE data(h, Sscanf(h.line))
    IN first(ReadSlice(r))

\* Delete taking any reply but NOT_FOUND for a success
DeleteReplyLax(line) ==
    IF line = NOT_FOUND THEN ErrNotFound ELSE nil

\* Delete: switch string(line)
DeleteReply(line) ==
    IF line = DELETED THEN nil
    ELSE IF line = NOT_FOUND THEN ErrNotFound
    ELSE ErrUnexpected

\* Increment, Decrement: the switch on s, then strconv.ParseUint
CountReply(line) ==
    IF line = NOT_FOUND THEN ErrNotFound
    ELSE IF Contains(line, NonNumericText) THEN ErrNonNumeric
    ELSE IF ParseUint(TrimSpace(line)).ok THEN nil
    ELSE ErrUnexpected

\* the types of Countable, and the bits of each (int on a 64-bit build)
CountTypes == {"uint8", "uint16", "uint32", "uint64", "int"}

Width(T) ==
    CASE T = "uint8" -> 8
      [] T = "uint16" -> 16
      [] T = "uint32" -> 32
      [] OTHER -> 64

\* the conversion T(u) of a uint64 u: the low Width(T) bits of u. The values
\* of the model stay below 1<<31, so that only uint8 and uint16 cut.
Cast(T, u) == IF Width(T) < 31 THEN u % (2 ^ Width(T)) ELSE u

\* Increment[T], Decrement[T]: the result and the error once the line is
\* read
countResult(T, line) ==
    IF CountReply(line) = nil
    THEN [result |-> Cast(T, ParseUint(TrimSpace(line)).u), err |-> nil]
    ELSE [result |-> 0, err |-> CountReply(line)]

\* the error of the verb's function once the request is written and
\* flushed, when the connection's reader yields r
ReplyErr(verb, r) ==
    IF verb = "Get" THEN getPayload(r).err
    ELSE IF ~ReadSlice(r).ok THEN ReadSlice(r).err
    ELSE CASE verb = "Set" -> SetReply(ReadSlice(r).line)
           [] verb = "Add" -> AddReply(ReadSlice(r).line)
           [] verb = "Delete" -> DeleteReply(ReadSlice(r).line)
           [] OTHER -> CountReply(ReadSlice(r).line)

\* the text carried by the error, when it is an unexpected-response error
ReplyText(verb, r) ==
    IF verb = "Get" THEN getPayload(r).text
    ELSE IF ReplyErr(verb, r) = ErrUnexpected
         THEN unexpected(ReadSlice(r).line)
    ELSE <<>>

\* a value block for key "a": "VALUE a 0 1\r\na\r\nEND\r\n"
ValueA ==
    VALUE \o <<SP, 97, SP, 48, SP, 49, CR, LF>> \o <<97, CR, LF>> \o END
\* "2\r\n"
NumberLine == <<50, CR, LF>>
\* "CLIENT_ERROR cannot increment or decrement non-numeric value\r\n"
NonNumericLine == CLIENT_ERROR \o NonNumericText \o <<CR, LF>>

\* a value block with a size below 0: "VALUE a 0 -1\r\nx"
NegativeSize == VALUE \o <<SP, 97, SP, 48, SP, 45, 49, CR, LF, 120>>

\* the message that defines the type 65 as struct other { A int; B int }
PairType ==
    <<31, 255, 129, 3, 1, 1, 5, 111, 116, 104, 101, 114, 1, 255, 130, 0, 1, 2,
      1, 1, 65, 1, 4, 0, 1, 1, 66, 1, 4, 0, 0, 0>>

\* the message that defines the type 64 as struct person { Name string;
\* Z other; Age int }
NestedType ==
    <<43, 127, 3, 1, 1, 6, 112, 101, 114, 115, 111, 110, 1, 255, 128, 0, 1, 3,
      1, 4, 78, 97, 109, 101, 1, 12, 0, 1, 1, 90, 1, 255, 130, 0, 1, 3, 65,
      103, 101, 1, 4, 0, 0, 0>>

\* a person with a struct other that has, after its field B, a field at
\* the distance 1<<63 - 1: 100 bytes
FieldOverflow ==
    PairType \o NestedType
      \o <<23, 255, 128, 1, 3, 98, 111, 98, 1, 2, 4, 248, 127, 255, 255, 255,
           255, 255, 255, 255, 0, 1, 64, 0>>

\* "VALUE a 0 100\r\n", those 100 bytes, "\r\nEND\r\n"
ValueOverflow ==
    VALUE \o <<SP, 97, SP, 48, SP, 49, 48, 48, CR, LF>> \o FieldOverflow
      \o <<CR, LF>> \o END

\* what the server may answer in one exchange
Replies == {STORED, NOT_STORED, EXISTS, END, ValueA, DELETED, NOT_FOUND,
            NonNumericLine, NumberLine, ERROR, NegativeSize, ValueOverflow}

\* the error returned by the function a verb hands to Client.do, for an
\* item v of type T (Set, Add) or a result of type T (Get): Set and Add
\* return the error of encode, then the error of seconds, before anything
\* is written; a write, the Flush or the read may fail (io); Get returns
\* what decode[T] returns for the payload. ErrPanic stands for a panic of
\* getPayload or of decode.
opErr(verb, arg, T, v, io, line) ==
    IF verb \in {"Set", "Add"} /\ encode(T, v).err # nil
    THEN encode(T, v).err
    ELSE IF verb \in {"Set", "Add"} /\ seconds(arg).err # nil
    THEN seconds(arg).err
    ELSE IF io # "ok" THEN ErrTransport
    ELSE IF verb = "Get" /\ getPayload(line).err = nil
    THEN decode(T, getPayload(line).payload).err
    ELSE ReplyErr(verb, line)

\* what the verb's function returns besides the error: the bytes Get decodes
\* into a string, the digits Increment and Decrement parse; with an error
\* it is the zero value
resultOf(verb, r) ==
    IF verb = "Get" THEN getPayload(r).payload
    ELSE IF verb \in {"Increment", "Decrement"} /\ ReplyErr(verb, r) = nil
         THEN TrimSpace(ReadSlice(r).line)
    ELSE <<>>

\* the checks before Client.do without the test of the delta
precheckKeyOnly(verb, key, arg) == check(key)

\* the error a verb returns before it calls Client.do, or nil
precheck(verb, key, arg) ==
    IF check(key) # nil THEN check(key)
    ELSE IF verb \in {"Increment", "Decrement"} /\ arg < 0 THEN ErrNegativeInc
    ELSE nil

\* ------------------------------------------------------------------ state
VARIABLES
    pools,   \* Collection.pools: sequence of [address, idle, available]
    conns,   \* every Buffer dialed so far: [pool, open, failure]
    lock,    \* Client.lock: 0 when free, else the goroutine holding it
    th,      \* per goroutine: the call it is in and where it is in it
    held,    \* PoolSpec: the Buffers the direct caller of the pool holds
    server,  \* ServerSpec: what the memcached instance stores under each key
    fn       \* FnSpec: the function applied last, its arguments and result

vars == <<pools, conns, lock, th, held, server, fn>>

\* address lists a Client is constructed with
AddrLists == {<<"a:11211">>, <<"a:11211", "b:11211">>}

\* newPool
newPool(address, idle) ==
    [address |-> address, idle |-> idle, available |-> <<>>]

\* iopool.New
New(instances, idle) ==
    [i \in DOMAIN instances |-> newPool(instances[i], idle)]

\* a dial that always goes to the address of the first pool
newBufferFirst(i) == [pool |-> 1, open |-> TRUE, failure |-> FALSE]

\* newBuffer, for a connection dialed by pool i
newBuffer(i) == [pool |-> i, open |-> TRUE, failure |-> FALSE]

\* a key the memcached instance holds no item for
absent == [stored |-> FALSE, data |-> <<>>]

idleThread ==
    [pc |-> "idle", verb |-> "none", key |-> <<>>, arg |-> 0, conn |-> 0,
     err |-> nil, item |-> <<>>, result |-> <<>>, reply |-> <<>>,
     type |-> "none", given |-> <<>>, value |-> <<>>]

InitWith(lists, caps) ==
    /\ \E instances \in lists, idle \in caps : pools = New(instances, idle)
    /\ conns = <<>>
    /\ lock = 0
    /\ th = [t \in Threads |-> idleThread]
    /\ held = {}
    /\ server = [key \in DoKeys \cup ServerKeys |-> absent]
    /\ fn = [name |-> "none"]

\* a Client of two servers
Init == InitWith({<<"a:11211", "b:11211">>}, 0..MaxIdle)

\* ------------------------------------------------------------- the pool
Range(s) == {s[i] : i \in DOMAIN s}
\* the connection pushed first
Bottom(s) == s[1]

\* stacks.Stack: Pop returns the element pushed last
Top(s) == s[Len(s)]
\* a Pop that leaves the connection on the stack
PopKeep(s) == s

Pop(s) == SubSeq(s, 1, Len(s) - 1)

\* SetHealth as a plain assignment of the last outcome
SetHealthLast(failure, err) == err # nil

\* a SetHealth that takes only failed exchanges for failures
SetHealthIO(failure, err) ==
    IF err \in {ErrTransport, ErrUnexpected, ErrScan} THEN TRUE ELSE failure

\* Buffer.SetHealth: the new value of the failure flag
SetHealth(failure, err) == IF err # nil THEN TRUE ELSE failure

\* pool.get without the test for a closed pool
getPathOpen(p) ==
    IF Len(p.available) = 0 THEN "open" ELSE "pop"

\* pool.get: which of its three paths is taken
getPath(p) ==
    IF p.idle = closed THEN "closed"
    ELSE IF Len(p.available) = 0 THEN "open"
    ELSE "pop"

\* pool.free without the test of the idle store's size
freeKeepsUnbounded(p, failure) ==
    /\ ~(p.idle = closed)
    /\ ~failure

\* pool.free: TRUE when the default case pushes the connection
freeKeeps(p, failure) ==
    /\ ~(p.idle = closed)
    /\ ~(Len(p.available) >= p.idle)
    /\ ~failure

\* pool.free: the pool afterwards
freePool(p, c, failure) ==
    IF freeKeeps(p, failure) THEN [p EXCEPT !.available = Append(@, c)]
    ELSE p

\* pool.free that closes nothing
freeConnOpen(p, b) == b

\* pool.free that closes the connection in every case
freeConnShut(p, b) == [b EXCEPT !.open = FALSE]

\* pool.free: the connection afterwards
freeConn(p, b) ==
    IF freeKeeps(p, b.failure) THEN b ELSE [b EXCEPT !.open = FALSE]

\* pool.close that forgets to mark the pool closed
closePoolDrain(p) == [p EXCEPT !.available = <<>>]

\* pool.close: the pool afterwards
closePool(p) == [p EXCEPT !.idle = closed, !.available = <<>>]

\* pool.close that pops the idle connections without closing them
closeSetNone(p) == {}

\* pool.close: the connections it pops and closes
closeSet(p) == Range(p.available)

\* ------------------------------------------------- PoolSpec: direct calls
\* The caller is goroutine Main; th[Main] records its last call on a pool:
\* the function (verb), the pool index (arg), the connection passed or
\* returned (conn) and the error passed or returned (err).
Main == 1

called(verb, i, c, err) ==
    [th EXCEPT ![Main] = [idleThread EXCEPT !.verb = verb, !.arg = i,
                                            !.conn = c, !.err = err]]

\* pool.get on pool i; ok tells whether the dial function succeeds
PoolGet(i, ok) ==
    /\ i \in DOMAIN pools
    /\ CASE getPath(pools[i]) = "closed" ->
              /\ th' = called("pool.get", i, 0, ErrClientClosed)
              /\ UNCHANGED <<pools, conns, held>>
         [] getPath(pools[i]) = "pop" ->
              /\ th' = called("pool.get", i, Top(pools[i].available), nil)
              /\ held' = held \cup {Top(pools[i].available)}
              /\ pools' = [pools EXCEPT ![i].available = Pop(@)]
              /\ conns' = conns
         [] OTHER ->
              IF ok
              THEN /\ Len(conns) < MaxConns
                   /\ th' = called("pool.get", i, Len(conns) + 1, nil)
                   /\ conns' = Append(conns, newBuffer(i))
                   /\ held' = held \cup {Len(conns) + 1}
                   /\ pools' = pools
              ELSE /\ th' = called("pool.get", i, 0, ErrDial)
                   /\ UNCHANGED <<pools, conns, held>>
    /\ UNCHANGED <<lock, server, fn>>

\* Buffer.SetHealth(err) on a held connection
PoolSetHealth(c, err) ==
    /\ c \in held
    /\ conns' = [conns EXCEPT ![c].failure = SetHealth(@, err)]
    /\ th' = called("SetHealth", conns[c].pool, c, err)
    /\ UNCHANGED <<pools, lock, held, server, fn>>

\* pool.free(c) on the pool c came from
PoolFree(c) ==
    /\ c \in held
    /\ LET i == conns[c].pool IN
         /\ pools' = [pools EXCEPT ![i] = freePool(@, c, conns[c].failure)]
         /\ conns' = [conns EXCEPT ![c] = freeConn(pools[i], @)]
         /\ th' = called("pool.free", i, c, nil)
    /\ held' = held \ {c}
    /\ UNCHANGED <<lock, server, fn>>

\* pool.close on pool i
PoolClose(i) ==
    /\ i \in DOMAIN pools
    /\ pools' = [pools EXCEPT ![i] = closePool(@)]
    /\ conns' = [c \in DOMAIN conns |->
                   IF c \in closeSet(pools[i])
                   THEN [conns[c] EXCEPT !.open = FALSE] ELSE conns[c]]
    /\ th' = called("pool.close", i, 0, nil)
    /\ UNCHANGED <<lock, held, server, fn>>

PoolNext ==
    \/ \E i \in DOMAIN pools, ok \in BOOLEAN : PoolGet(i, ok)
    \/ \E c \in held, err \in {nil, ErrTransport} : PoolSetHealth(c, err)
    \/ \E c \in held : PoolFree(c)
    \/ \E i \in DOMAIN pools : PoolClose(i)

\* the capacities a pool is made with: up to one more than a Client's, so
\* that the idle store can hold two connections
PoolCaps == 0..(MaxIdle + 1)

PoolInit == InitWith(AddrLists, PoolCaps)

PoolSpec == PoolInit /\ [][PoolNext]_vars

\* ------------------------------------------------------------ one Client
\* the pool Collection.Get / Collection.Return choose for key
choice(key) == pick(key, Len(pools)) + 1

\* a verb is called: Set, Add, Get, Delete, Increment or Decrement up to the
\* point where it calls Client.do
entered(verb, key, arg, item) ==
    [idleThread EXCEPT
       !.pc = IF precheck(verb, key, arg) # nil THEN "done" ELSE "getConn",
       !.verb = verb, !.key = key, !.arg = arg, !.item = item,
       !.err = precheck(verb, key, arg)]

\* var result T: the zero value of T
Zero(T) ==
    IF T \in IntTypes THEN 0
    ELSE IF T \in GobTypes THEN Person(<<>>, 0)
    ELSE <<>>

\* the goroutine at the call of a verb with a value v of type T (Set, Add)
\* or for the type T (Get)
enteredTyped(verb, key, arg, T, v) ==
    [entered(verb, key, arg,
             IF verb \in {"Set", "Add"} THEN encode(T, v).b ELSE <<>>)
       EXCEPT !.type = T,
              !.given = v,
              !.value = IF verb = "Get" THEN Zero(T) ELSE <<>>]

\* a verb is called, Set and Add with a value v of type T, Get for the type
\* T; the other verbs take no type ("none")
Call(t, verb, key, arg, T, v) ==
    /\ th[t].pc \in {"idle", "done"}
    /\ th' = [th EXCEPT ![t] = enteredTyped(verb, key, arg, T, v)]
    /\ UNCHANGED <<pools, conns, lock, held, server, fn>>

\* Client.do(key, f) is entered, by whichever verb
Do(t, key) ==
    /\ th[t].pc \in {"idle", "done"}
    /\ th' = [th EXCEPT ![t] =
                [idleThread EXCEPT !.pc = "getConn", !.verb = "do",
                                   !.key = key]]
    /\ UNCHANGED <<pools, conns, lock, held, server, fn>>

\* Client.Close is called
CallClose(t) ==
    /\ th[t].pc \in {"idle", "done"}
    /\ th' = [th EXCEPT ![t] =
                [idleThread EXCEPT !.pc = "Close", !.verb = "Close"]]
    /\ UNCHANGED <<pools, conns, lock, held, server, fn>>

\* c.lock.Lock() in getConn, setConn and Close
LockBody == [getConn |-> "get", setConn |-> "free", Close |-> "closing"]

\* a Lock that never waits
CanLockAny(t) == TRUE

\* sync.Mutex: Lock returns only when the mutex is free
CanLock(t) == lock = 0

Lock(t) ==
    /\ th[t].pc \in DOMAIN LockBody
    /\ CanLock(t)
    /\ lock' = t
    /\ th' = [th EXCEPT ![t].pc = LockBody[th[t].pc]]
    /\ UNCHANGED <<pools, conns, held, server, fn>>

\* Client.getConn, holding the lock: Collection.Get and pool.get up to the
\* dial; the lock is released on return
GetConn(t) ==
    /\ th[t].pc = "get"
    /\ LET i == choice(th[t].key)
           path == getPath(pools[i]) IN
         CASE path = "closed" ->
                /\ th' = [th EXCEPT ![t].pc = "done",
                                    ![t].err = ErrClientClosed]
                /\ lock' = 0
                /\ pools' = pools
           [] path = "open" ->
                /\ th' = [th EXCEPT ![t].pc = "dial"]
                /\ lock' = lock
                /\ pools' = pools
           [] OTHER ->
                /\ th' = [th EXCEPT ![t].pc = "run",
                                    ![t].conn = Top(pools[i].available)]
                /\ lock' = 0
                /\ pools' = [pools EXCEPT ![i].available = Pop(@)]
    /\ UNCHANGED <<conns, held, server, fn>>

\* a getConn that tries again when the dial has failed
DialRetry(t, ok) ==
    /\ th[t].pc = "dial"
    /\ IF ok
       THEN /\ Len(conns) < MaxConns
            /\ conns' = Append(conns, newBuffer(choice(th[t].key)))
            /\ th' = [th EXCEPT ![t].pc = "run", ![t].conn = Len(conns) + 1]
            /\ lock' = 0
       ELSE /\ conns' = conns
            /\ th' = [th EXCEPT ![t].pc = "get", ![t].err = ErrDial]
            /\ lock' = lock
    /\ UNCHANGED <<pools, held, server, fn>>

\* the dial of pool.get returns (the lock is still held); getConn returns
Dial(t, ok) ==
    /\ th[t].pc = "dial"
    /\ IF ok
       THEN /\ Len(conns) < MaxConns
            /\ conns' = Append(conns, newBuffer(choice(th[t].key)))
            /\ th' = [th EXCEPT ![t].pc = "run", ![t].conn = Len(conns) + 1]
       ELSE /\ conns' = conns
            /\ th' = [th EXCEPT ![t].pc = "done", ![t].err = ErrDial]
    /\ lock' = 0
    /\ UNCHANGED <<pools, held, server, fn>>

\* Client.do: err = f(conn) returns err, then conn.SetHealth(err)
Run(t, err) ==
    /\ th[t].pc = "run"
    /\ th' = [th EXCEPT ![t].pc = "setConn", ![t].err = err]
    /\ conns' = [conns EXCEPT ![th[t].conn].failure = SetHealth(@, err)]
    /\ UNCHANGED <<pools, lock, held, server, fn>>

\* Client.do: err = f(conn) for the verb's function, the whole exchange with
\* a server that answers line, then conn.SetHealth(err). reply is what f
\* has read: nothing when encode or seconds refused the call or when the
\* write, the Flush or the read failed. Get decodes the payload into its
\* type and returns what decode returns, value and error. A panic of f
\* (getPayload on a size below 0, decode on a payload shorter than the
\* type) leaves f and do at once: SetHealth and setConn do not run and the
\* goroutine ends.
Exchange(t, io, line) ==
    /\ th[t].pc = "run"
    /\ th[t].verb \in Verbs
    /\ LET c == th[t]
           err == opErr(c.verb, c.arg, c.type, c.given, io, line)
           refused == /\ c.verb \in {"Set", "Add"}
                      /\ (encode(c.type, c.given).err # nil
                            \/ seconds(c.arg).err # nil)
           read == ~refused /\ io = "ok"
       IN /\ th' = [th EXCEPT
                      ![t].pc = IF err = ErrPanic THEN "panic" ELSE "setConn",
                      ![t].err = err,
                      ![t].result = IF err = nil THEN resultOf(c.verb, line)
                                    ELSE <<>>,
                      ![t].reply = IF read THEN line ELSE <<>>,
                      ![t].value =
                         IF /\ c.verb = "Get"
                            /\ read
                            /\ getPayload(line).err = nil
                            /\ err # ErrPanic
                         THEN decode(c.type, getPayload(line).payload).v
                         ELSE @]
          /\ conns' = IF err = ErrPanic THEN conns
                      ELSE [conns EXCEPT
                              ![c.conn].failure = SetHealth(@, err)]
    /\ UNCHANGED <<pools, lock, held, server, fn>>

\* a Return that frees the connection to every pool of the Collection
SetConnShared(t) ==
    /\ th[t].pc = "free"
    /\ LET i == choice(th[t].key)
           c == th[t].conn IN
         /\ pools' = [j \in DOMAIN pools |->
                        freePool(pools[j], c, conns[c].failure)]
         /\ conns' = [conns EXCEPT ![c] = freeConn(pools[i], @)]
    /\ th' = [th EXCEPT ![t].pc = "done", ![t].conn = 0]
    /\ lock' = 0
    /\ UNCHANGED <<held, server, fn>>

\* Client.setConn, holding the lock: Collection.Return and pool.free
SetConn(t) ==
    /\ th[t].pc = "free"
    /\ LET i == choice(th[t].key)
           c == th[t].conn IN
         /\ pools' = [pools EXCEPT ![i] = freePool(@, c, conns[c].failure)]
         /\ conns' = [conns EXCEPT ![c] = freeConn(pools[i], @)]
    /\ th' = [th EXCEPT ![t].pc = "done", ![t].conn = 0]
    /\ lock' = 0
    /\ UNCHANGED <<held, server, fn>>

\* Client.Close, holding the lock: Collection.Close closes every pool
Close(t) ==
    /\ th[t].pc = "closing"
    /\ pools' = [i \in DOMAIN pools |-> closePool(pools[i])]
    /\ conns' = [c \in DOMAIN conns |->
                   IF \E i \in DOMAIN pools : c \in closeSet(pools[i])
                   THEN [conns[c] EXCEPT !.open = FALSE] ELSE conns[c]]
    /\ th' = [th EXCEPT ![t].pc = "done"]
    /\ lock' = 0
    /\ UNCHANGED <<held, server, fn>>

\* --------------------------------------------- the memcached instance
\* What the server at the other end of a connection does with a command,
\* after the memcached text protocol: store maps a key to what it holds.
holds(data) == [stored |-> TRUE, data |-> data]

\* the decimal digits of n
RECURSIVE Itoa(_)
Itoa(n) ==
    IF n < 10 THEN <<48 + n>> ELSE Append(Itoa(n \div 10), 48 + (n % 10))

\* the counter after incr / decr: decr stops at 0
counted(verb, old, delta) ==
    IF verb = "Increment" THEN old + delta
    ELSE IF old < delta THEN 0 ELSE old - delta

\* the store after the command
mcStore(store, verb, key, data, delta) ==
    CASE verb = "Set" -> [store EXCEPT ![key] = holds(data)]
      [] verb = "Add" ->
           IF store[key].stored THEN store
           ELSE [store EXCEPT ![key] = holds(data)]
      [] verb = "Delete" -> [store EXCEPT ![key] = absent]
      [] verb \in {"Increment", "Decrement"} ->
           IF store[key].stored /\ IsDigits(store[key].data)
           THEN [store EXCEPT ![key] =
                   holds(Itoa(counted(verb, Decimal(store[key].data), delta)))]
           ELSE store
      [] OTHER -> store

\* the bytes the server answers the command with
mcReply(store, verb, key, data, delta) ==
    CASE verb = "Set" -> STORED
      [] verb = "Add" -> IF store[key].stored THEN NOT_STORED ELSE STORED
      [] verb = "Get" ->
           IF store[key].stored
           THEN VALUE \o <<SP>> \o KeyBytes(key) \o <<SP, 48, SP>>
                \o Itoa(Len(store[key].data)) \o <<CR, LF>>
                \o store[key].data \o <<CR, LF>> \o END
           ELSE END
      [] verb = "Delete" -> IF store[key].stored THEN DELETED ELSE NOT_FOUND
      [] OTHER ->
           IF ~store[key].stored THEN NOT_FOUND
           ELSE IF ~IsDigits(store[key].data) THEN NonNumericLine
           ELSE Itoa(counted(verb, Decimal(store[key].data), delta))
                \o <<CR, LF>>

\* ----------------------------- ServerSpec: one goroutine against a server
\* items a Set / Add stores: the strings "a" and "1"
Items == {<<97>>, <<49>>}
\* expirations a Set / Add is called with
ServerTTLs == {0, Second \div 2}

ServerArgs(verb) ==
    IF verb \in {"Set", "Add"} THEN ServerTTLs
    ELSE IF verb \in {"Increment", "Decrement"} THEN Deltas
    ELSE {0}

\* the values of type T a Set / Add is called with: the strings "a" and
\* "1", the int 998877, the person of the tests and a channel
ServerValues(T) ==
    CASE T = "string" -> {<<97>>, <<49>>}
      [] T = "int" -> {998877}
      [] T \in ChanTypes -> {Channel}
      [] OTHER -> {Person(<<83, 101, 116, 104>>, 34)}

\* the types of the values stored, and the types a Get is called for
ServerTypes == {"string", "int", "person"}

\* what a verb is called with besides key and arg: Set and Add a type and a
\* value of it, Get the type to decode into
CallTypes(verb) ==
    IF verb \in {"Set", "Add"} THEN ServerTypes \cup ChanTypes
    ELSE IF verb = "Get" THEN ServerTypes
    ELSE {"none"}

CallValues(verb, T) ==
    IF verb \in {"Set", "Add"} THEN ServerValues(T)
    ELSE IF verb = "Get" THEN {Zero(T)}
    ELSE {<<>>}

\* messages of gob that a Set stores as strings under the key "a": the
\* person bob without the 0 that ends the struct, bob with a field Age that
\* is cut short, and bob with a struct whose field distance overflows
GobStrings(verb, key, T) ==
    IF verb = "Set" /\ key = KeyA /\ T = "string"
    THEN {PersonType \o <<7, 255, 128, 1, 3, 98, 111, 98>>,
          PersonType \o <<9, 255, 128, 1, 3, 98, 111, 98, 3, 64>>,
          FieldOverflow}
    ELSE {}

\* a verb is called, Set and Add with a value to store, Get with a type; an
\* Increment that would take a counter beyond MaxCount is left out. item is
\* what encode makes of the value.
CallItem(t, verb, key, arg, T, v) ==
    /\ (verb = "Increment" /\ key \in DOMAIN server
          /\ IsDigits(server[key].data))
         => Decimal(server[key].data) + arg <= MaxCount
    /\ Call(t, verb, key, arg, T, v)

\* Client.do calls f(conn): the function of the verb up to the point where
\* it waits for the reply. In Set and Add encode may refuse the item, then
\* seconds the expiration, before anything is written; a write or the Flush may fail (io); then f returns
\* the error and do calls conn.SetHealth(err). Otherwise the command has
\* reached the server when Flush returns: the server carries it out and
\* answers, or (refuses) answers ERROR and does nothing. reply holds the
\* bytes of the answer, which f has yet to read; no lock is held meanwhile.
Send(t, io, refuses) ==
    /\ th[t].pc = "run"
    /\ th[t].verb \in Verbs
    /\ LET c == th[t]
           err == IF c.verb \in {"Set", "Add"}
                       /\ encode(c.type, c.given).err # nil
                  THEN encode(c.type, c.given).err
                  ELSE IF c.verb \in {"Set", "Add"} /\ seconds(c.arg).err # nil
                  THEN seconds(c.arg).err
                  ELSE IF io # "ok" THEN ErrTransport
                  ELSE nil
       IN IF err # nil
          THEN /\ th' = [th EXCEPT ![t].pc = "setConn", ![t].err = err]
               /\ conns' = [conns EXCEPT
                              ![c.conn].failure = SetHealth(@, err)]
               /\ server' = server
          ELSE /\ th' = [th EXCEPT
                           ![t].pc = "read",
                           ![t].reply =
                              IF refuses THEN ERROR
                              ELSE mcReply(server, c.verb, c.key, c.item,
                                           c.arg)]
               /\ conns' = conns
               /\ server' = IF refuses THEN server
                            ELSE mcStore(server, c.verb, c.key, c.item, c.arg)
    /\ UNCHANGED <<pools, lock, held, fn>>

\* f(conn) from the read of the reply on, then conn.SetHealth(err): the read
\* fails (reply is then empty), or the verb's function classifies the bytes
\* of the reply. Get decodes the payload into its type and returns what
\* decode returns, value and error; a panic of getPayload or of decode leaves
\* f, do and Get at once, so that SetHealth and setConn do not run and the
\* goroutine ends.
Receive(t, ok) ==
    /\ th[t].pc = "read"
    /\ LET c == th[t]
           read == IF ok THEN ReplyErr(c.verb, c.reply) ELSE ErrTransport
           dec == decode(c.type, getPayload(c.reply).payload)
           err == IF c.verb = "Get" /\ read = nil THEN dec.err ELSE read
       IN /\ th' = [th EXCEPT ![t].pc = IF err = ErrPanic THEN "panic"
                                        ELSE "setConn",
                              ![t].err = err,
                              ![t].result = IF err = nil
                                            THEN resultOf(c.verb, c.reply)
                                            ELSE <<>>,
                              ![t].reply = IF ok THEN @ ELSE <<>>,
                              ![t].value = IF /\ c.verb = "Get"
                                              /\ read = nil
                                              /\ err # ErrPanic
                                           THEN dec.v ELSE @]
          /\ conns' = IF err = ErrPanic THEN conns
                      ELSE [conns EXCEPT
                              ![c.conn].failure = SetHealth(@, err)]
    /\ UNCHANGED <<pools, lock, held, server, fn>>

\* the calls made with a key: every one with the key "a"; with the key of
\* the no-break space the Set, Add and Get of a string, and Delete
OfKey(verb, key, T) ==
    key = KeyNBSP
      => (verb \in {"Set", "Add", "Get", "Delete"} /\ T \in {"string", "none"})

ServerNext ==
    \/ \E verb \in Verbs, key \in ServerKeys :
         \E arg \in ServerArgs(verb) :
           \E T \in CallTypes(verb) :
             \E v \in CallValues(verb, T) \cup GobStrings(verb, key, T) :
               /\ OfKey(verb, key, T)
               /\ CallItem(Main, verb, key, arg, T, v)
    \/ CallClose(Main)
    \/ Lock(Main)
    \/ GetConn(Main)
    \/ \E ok \in BOOLEAN : Dial(Main, ok)
    \/ \E io \in IOResults \ {"read fails"}, refuses \in BOOLEAN :
         Send(Main, io, refuses)
    \/ \E ok \in BOOLEAN : Receive(Main, ok)
    \/ SetConn(Main)
    \/ Close(Main)

\* a Client of one server, as in the end-to-end tests
ServerInit == InitWith({<<"a:11211">>}, {MaxIdle})

ServerSpec == ServerInit /\ [][ServerNext]_vars

\* ------------------------------------ FnSpec: the functions on their own
\* fn records the function applied last, its arguments and its result.
applied(name, in, out) == [name |-> name, in |-> in, out |-> out]

\* no function has been applied yet: a behaviour of FnSpec is one
\* application of one function, or one run of the loop of a distribution
\* test
Resting == fn.name = "none"

\* Collection.pick(key) on a Collection of n pools
Pick(key, n) ==
    /\ Resting
    /\ fn' = applied("pick", [key |-> key, n |-> n], pick(key, n))
    /\ UNCHANGED <<pools, conns, lock, th, held, server>>

\* the key of round i of the distribution tests: the prefix, then
\* strconv.Itoa(i) (the prefix is "" in TestPools_pick, "key" in
\* TestCollection_pick_distribution)
TestKey(prefix, i) ==
    prefix \o [j \in DOMAIN Itoa(i) |-> Rep(Itoa(i)[j], 1)]

KeyPrefix == <<Rep(107, 1), Rep(101, 1), Rep(121, 1)>>
\* the tests loop for i := 0; i < 1000; i++ over 3 pools
TestRounds == 1000
TestPools == 3

\* counts := make(map[int]int), before the loop
StartCounts(prefix) ==
    /\ Resting
    /\ fn' = applied("counts", [prefix |-> prefix, i |-> 0],
                     [idx \in 0..(TestPools - 1) |-> 0])
    /\ UNCHANGED <<pools, conns, lock, th, held, server>>

\* one round of the loop: counts[pick(key)]++
Count ==
    /\ fn.name = "counts"
    /\ fn.in.i < TestRounds
    /\ fn' = applied("counts", [fn.in EXCEPT !.i = @ + 1],
                     [fn.out EXCEPT
                        ![pick(TestKey(fn.in.prefix, fn.in.i), TestPools)]
                          = @ + 1])
    /\ UNCHANGED <<pools, conns, lock, th, held, server>>

\* address lists iopool.New is applied to: the same addresses in several
\* orders
NewLists ==
    {<<"a:11211">>, <<"a:11211", "b:11211">>, <<"b:11211", "a:11211">>,
     <<"a:11211", "b:11211", "c:11211">>, <<"c:11211", "a:11211", "b:11211">>,
     <<"b:11211", "c:11211", "a:11211">>}

\* iopool.New(instances, idle), as memc.New calls it on c.addrs
NewCollection(instances, idle) ==
    /\ Resting
    /\ fn' = applied("New", [instances |-> instances, idle |-> idle],
                     New(instances, idle))
    /\ UNCHANGED <<pools, conns, lock, th, held, server>>

\* expirations the header of a Set / Add is computed for: none, one second,
\* a second and a half, an hour, 30 days, 30 days and 100ms, 30 days and a
\* second, 90 days, half a second, minus one second
WireTTLs ==
    {0, Second, Second + 5, defaultExpiration, ThirtyDays * Second,
     ThirtyDays * Second + 1, (ThirtyDays + 1) * Second,
     3 * ThirtyDays * Second, Second \div 2, 0 - Second}

\* readings of the injected clock
Clocks == {Time(0, 0), Clock, Time(1700000000, 9)}

\* Set / Add up to the header line: seconds(options.expiration), Fprintf
WriteHeader(cmd, now, expiration, item) ==
    /\ Resting
    /\ fn' = applied("header",
                     [cmd |-> cmd, now |-> now, expiration |-> expiration,
                      item |-> item],
                     header(cmd, KeyA, 0, expiration, item))
    /\ UNCHANGED <<pools, conns, lock, th, held, server>>

\* a value block: the header "VALUE a <flags> <size>", then the bytes after
\* it
Block(flags, size, after) ==
    VALUE \o <<SP, 97, SP>> \o flags \o <<SP>> \o size \o <<CR, LF>> \o after

\* "a\r\n"
DataA == <<97, CR, LF>>

\* value blocks that are not as the protocol has them: a header with a
\* fifth field, flags that are no number, a negative size, another line
\* where END is due, a second value, a size larger and a size smaller than
\* the data, data not followed by CRLF, a block cut short, a space before
\* VALUE, a key with the character U+00A0 in it, a negative size with
\* nothing after the header
BadBlocks ==
    {Block(<<48>>, <<49, SP, 55>>, DataA \o END),
     Block(<<120>>, <<49>>, DataA \o END),
     Block(<<48>>, <<45, 49>>, DataA \o END),
     Block(<<48>>, <<49>>, DataA \o ERROR),
     Block(<<48>>, <<49>>, DataA \o ValueA),
     Block(<<48>>, <<53>>, DataA \o END),
     Block(<<48>>, <<49>>, <<97, 98, 99, CR, LF>> \o END),
     Block(<<48>>, <<49>>, <<97, 88, 89>> \o END),
     Block(<<48>>, <<49>>, <<97>>),
     <<SP>> \o ValueA,
     VALUE \o <<SP, 97, 194, 160, 98, SP, 48, SP, 49, CR, LF>> \o DataA \o END,
     Block(<<48>>, <<45, 49>>, <<>>)}

\* the value of key "a", the value of a key that is the byte FF, a value
\* block of no bytes, and one of three bytes with a line feed among them
GoodBlocks ==
    {ValueA,
     VALUE \o <<SP, 255, SP, 48, SP, 49, CR, LF>> \o DataA \o END,
     Block(<<48>>, <<48>>, <<CR, LF>> \o END),
     Block(<<55>>, <<51>>, <<97, LF, 98, CR, LF>> \o END)}

\* a line of n bytes, the last of them the line feed
LineOf(n) == [i \in 1..n |-> IF i = n THEN LF ELSE 97]

\* replies that end in a bare line feed, carry a space, are in lower case,
\* or do not end; a line that fills the reader's buffer, and one that is a
\* byte longer
OddLines ==
    {<<83, 84, 79, 82, 69, 68, LF>>, <<69, 78, 68, LF>>,
     <<83, 84, 79, 82, 69, 68, SP, CR, LF>>,
     <<115, 116, 111, 114, 101, 100, CR, LF>>,
     <<68, 69, 76, 69, 84, 69, 68, LF>>, <<>>,
     <<83, 84, 79, 82, 69, 68>>,
     LineOf(ReaderSize), LineOf(ReaderSize + 1)}

\* what the reader of the connection yields in FnSpec
WireReplies == Replies \cup GoodBlocks \cup BadBlocks \cup OddLines

\* the verb's function from the first read of the connection on
ReadReply(verb, r) ==
    /\ Resting
    /\ fn' = applied("reply", [verb |-> verb, r |-> r],
                     [err |-> ReplyErr(verb, r), text |-> ReplyText(verb, r),
                      result |-> resultOf(verb, r)])
    /\ UNCHANGED <<pools, conns, lock, th, held, server>>

\* a server that holds "1000" for the key "a"
Thousand == [key \in DoKeys \cup ServerKeys |-> holds(<<49, 48, 48, 48>>)]

\* lines an incr / decr is answered with: the server's answers when it
\* holds "1000", holds nothing, holds no number; 300, 65536 and 1<<64; a
\* number with zeros before it, with spaces around it, with a sign; an
\* empty line, an error line, a line that ends in a bare line feed, a
\* number followed by the non-numeric message, a line that does not end, a
\* number after the character U+00A0, and a line longer than the reader's
\* buffer
CountLines ==
    {mcReply(Thousand, v, KeyA, <<>>, 2) : v \in {"Increment", "Decrement"}}
    \cup {NOT_FOUND, NonNumericLine, NumberLine, ERROR,
          <<51, 48, 48, CR, LF>>, <<54, 53, 53, 51, 54, CR, LF>>,
          <<49, 56, 52, 52, 54, 55, 52, 52, 48, 55, 51, 55, 48, 57, 53, 53,
            49, 54, 49, 54, CR, LF>>,
          <<48, 48, 55, CR, LF>>, <<SP, 49, 50, SP, CR, LF>>,
          <<45, 49, CR, LF>>, <<43, 49, CR, LF>>, <<CR, LF>>,
          <<78, 79, 84, 95, 70, 79, 85, 78, 68, LF>>,
          <<49, SP>> \o NonNumericText \o <<CR, LF>>,
          <<49, 50>>, <<194, 160, 49, 50, CR, LF>>,
          LineOf(ReaderSize + 1)}

\* Increment[T] / Decrement[T] from the read of the connection on
CountResult(verb, T, r) ==
    /\ Resting
    /\ fn' = applied("count", [verb |-> verb, type |-> T, r |-> r],
                     IF ReadSlice(r).ok THEN countResult(T, ReadSlice(r).line)
                     ELSE [result |-> 0, err |-> ReadSlice(r).err])
    /\ UNCHANGED <<pools, conns, lock, th, held, server>>

\* byte sequences a []byte or a string is made of: none, "a", "foobar",
\* the bytes 2 4 6 8 of the tests, and bytes that are no text
ByteValues ==
    {<<>>, <<97>>, <<102, 111, 111, 98, 97, 114>>, <<2, 4, 6, 8>>,
     <<0, 255, CR, LF, 128>>}

\* integers around the powers of 256 and the ends of the 32-bit range, and
\* 998877 of the tests
EdgeValues ==
    {Min32, Min32 + 1, 0 - 16777217, 0 - 16777216, 0 - 65537, 0 - 65536,
     65535, 65536, 998877, 16777215, 16777216, Max32 - 1, Max32}

\* the values of type T that are encoded
Values(T) ==
    CASE T \in ByteTypes -> ByteValues
      [] T = "int8" -> (0 - 128)..127
      [] T = "uint8" -> 0..255
      [] T = "int16" -> {0 - 32768, 0 - 32767, 32766, 32767}
                          \cup ((0 - 300)..300)
      [] T = "uint16" -> (0..300) \cup {32767, 32768, 65534, 65535}
      [] T \in {"int32", "int64", "int"} -> ((0 - 300)..300) \cup EdgeValues
      [] T \in {"uint32", "uint64", "uint"} ->
           (0..300) \cup {v \in EdgeValues : v >= 0}
      [] T \in ChanTypes -> {Channel}
      [] OTHER -> {Person(<<98, 111, 98>>, 32), Person(<<83, 101, 116, 104>>, 34),
                   Person(<<>>, 30), Person(<<97>>, 0), Person(<<>>, 0),
                   Person([i \in 1..127 |-> 120], 63),
                   Person(<<97>>, 0 - 1), Person(<<97>>, 70000)}

\* encode(item) for an item v of type T
Encode(T, v) ==
    /\ Resting
    /\ fn' = applied("encode", [type |-> T, v |-> v], encode(T, v))
    /\ UNCHANGED <<pools, conns, lock, th, held, server>>

\* the message that defines the type 65 as struct other { Name string }
OtherType ==
    <<28, 255, 129, 3, 1, 1, 5, 111, 116, 104, 101, 114, 1, 255, 130, 0, 1, 1,
      1, 4, 78, 97, 109, 101, 1, 12, 0, 0, 0>>

\* the message that defines the type 64 as struct person { Name string;
\* X interface{}; Age int }
TaggedType ==
    <<42, 127, 3, 1, 1, 6, 112, 101, 114, 115, 111, 110, 1, 255, 128, 0, 1, 3,
      1, 4, 78, 97, 109, 101, 1, 12, 0, 1, 1, 88, 1, 16, 0, 1, 3, 65, 103,
      101, 1, 4, 0, 0, 0>>

\* the message that defines the type 65 as []int
IntsType ==
    <<19, 255, 129, 2, 1, 1, 5, 91, 93, 105, 110, 116, 1, 255, 130, 0, 1, 4,
      0, 0>>

\* the message that defines the type 64 as struct person { Name string;
\* Y []int; Age int }
ListedType ==
    <<43, 127, 3, 1, 1, 6, 112, 101, 114, 115, 111, 110, 1, 255, 128, 0, 1, 3,
      1, 4, 78, 97, 109, 101, 1, 12, 0, 1, 1, 89, 1, 255, 130, 0, 1, 3, 65,
      103, 101, 1, 4, 0, 0, 0>>

\* payloads handed to decode: from no byte to nine bytes, with the top bit
\* of the last byte set and clear; what encode makes of a person, that
\* cut short, and that with a byte after it; a person whose fields are
\* written though they are zero; a person without the 0 that ends the
\* struct, without a field and with Name; one whose field Age is cut
\* short; a person and an other after the definition of both types; the
\* type of person defined twice; a fieldType, a type of gob's own; a
\* person under an id of 64 + (1<<32), which is 64 as an int32; a person
\* with a field that holds an interface value, an int; one whose interface
\* value defines a type first, in messages of their own; a person with a
\* slice of 1<<63, of 1<<62 and of two elements; and a person with a
\* struct other that has, after its field B, after its field A and as its
\* first, a field at the distance 1<<63 - 1
Payloads ==
    {<<>>, <<254>>, <<1>>, <<1, 2>>, <<1, 128>>, <<1, 2, 3>>,
     <<1, 2, 3, 4>>, <<1, 2, 3, 132>>, <<1, 2, 3, 4, 0>>,
     <<1, 2, 3, 4, 0, 0, 0>>, <<1, 2, 3, 4, 0, 0, 0, 0>>,
     <<1, 2, 3, 132, 255, 255, 255, 255>>,
     <<1, 2, 3, 4, 0, 0, 0, 0, 9>>, <<1, 2, 3, 4, 5, 6, 7, 8>>,
     <<102, 111, 111, 98, 97, 114>>}
    \cup {encode("person", v).b : v \in Values("person")}
    \cup {SubSeq(encode("person", v).b, 1, 40) : v \in Values("person")}
    \cup {encode("person", v).b \o <<7>> : v \in Values("person")}
    \cup {PersonType \o <<7>> \o gobInt(PersonId) \o <<1, 0, 1, 0, 0>>}
    \cup {PersonType \o <<2, 255, 128>>,
          PersonType \o <<7, 255, 128, 1, 3, 98, 111, 98>>,
          PersonType \o <<9, 255, 128, 1, 3, 98, 111, 98, 3, 64>>,
          PersonType \o OtherType
            \o <<10, 255, 128, 1, 3, 98, 111, 98, 1, 64, 0>>,
          PersonType \o OtherType \o <<7, 255, 130, 1, 3, 98, 111, 98, 0>>,
          PersonType \o PersonType \o <<2, 255, 128>>,
          <<4, 42, 1, 1, 97>>,
          PersonType \o <<12, 251, 2, 0, 0, 0, 128, 1, 3, 98, 111, 98, 0>>,
          TaggedType
            \o <<19, 255, 128, 1, 3, 98, 111, 98, 1, 3, 105, 110, 116, 4, 2,
                 0, 10, 1, 64, 0>>,
          TaggedType
            \o <<12, 255, 128, 1, 3, 98, 111, 98, 1, 3, 105, 110, 116>>
            \o OtherType \o <<8, 255, 130, 2, 9, 9, 1, 64, 0>>,
          IntsType \o ListedType
            \o <<20, 255, 128, 1, 3, 98, 111, 98, 1, 248, 128, 0, 0, 0, 0, 0,
                 0, 0, 1, 64, 0>>,
          IntsType \o ListedType
            \o <<20, 255, 128, 1, 3, 98, 111, 98, 1, 248, 64, 0, 0, 0, 0, 0,
                 0, 0, 1, 64, 0>>,
          IntsType \o ListedType
            \o <<14, 255, 128, 1, 3, 98, 111, 98, 1, 2, 4, 6, 1, 64, 0>>,
          FieldOverflow,
          PairType \o NestedType
            \o <<23, 255, 128, 1, 3, 98, 111, 98, 1, 1, 4, 248, 127, 255, 255,
                 255, 255, 255, 255, 255, 0, 1, 64, 0>>,
          PairType \o NestedType
            \o <<21, 255, 128, 1, 3, 98, 111, 98, 1, 248, 127, 255, 255, 255,
                 255, 255, 255, 255, 0, 1, 64, 0>>}

\* decode[T](b)
Decode(T, b) ==
    /\ Resting
    /\ fn' = applied("decode", [type |-> T, b |-> b], decode(T, b))
    /\ UNCHANGED <<pools, conns, lock, th, held, server>>

\* what a Client is made with: SetDialTimeout(timeout) or no such option
DialOptions ==
    {[set |-> FALSE, timeout |-> 0]}
    \cup {[set |-> TRUE, timeout |-> d] :
            d \in {Second, 3 * Second, 5 * Second, 10 * Second}}

defaultDialTimeout == 5 * Second

\* memc.New(instances, opts...): the fields of the Client
NewClient(instances, opt) ==
    [timeout |-> IF opt.set THEN opt.timeout ELSE defaultDialTimeout,
     expiration |-> defaultExpiration,
     idle |-> 1,
     pools |-> New(instances, 1)]

\* open(address): the address dialed, the Timeout of the net.Dialer and the
\* time to live of the context
open(address) ==
    [address |-> address, timeout |-> 3 * Second, ttl |-> 3 * Second]

\* a Client is made with an option, and its pool i dials: newPool sets openf
\* to open, and pool.get calls p.openf(p.address)
DialOf(instances, opt, i) ==
    /\ Resting
    /\ fn' = applied("open", [instances |-> instances, option |-> opt,
                              pool |-> i],
                     [client |-> NewClient(instances, opt),
                      dial |-> open(NewClient(instances, opt).pools[i]
                                      .address)])
    /\ UNCHANGED <<pools, conns, lock, th, held, server>>

\* the statements of the function a verb hands to Client.do, in the order
\* of the code; each of them returns an error or goes on to the next
body(verb) ==
    IF verb \in {"Set", "Add"}
    THEN <<"encode", "seconds", "header", "payload", "crlf", "flush", "read">>
    ELSE IF verb = "Get" THEN <<"header", "flush", "read", "decode">>
    ELSE <<"header", "flush", "read">>

\* a statement whose error is dropped, as in _ = conn.Flush()
ranOn(out, stmt, ok, n) ==
    [at |-> out.at + 1, trace |-> Append(out.trace, stmt),
     err |-> IF ok THEN out.err ELSE stmt,
     returned |-> out.at + 1 = n]

\* one statement of the function has run: if err != nil { return err }.
\* trace lists the statements that were run, err is nil or names the
\* statement that failed, n is the number of statements
ran(out, stmt, ok, n) ==
    [at |-> out.at + 1, trace |-> Append(out.trace, stmt),
     err |-> IF ok THEN nil ELSE stmt,
     returned |-> ~ok \/ out.at + 1 = n]

\* Client.do calls f(conn)
Begin(verb) ==
    /\ Resting
    /\ fn' = applied("f", [verb |-> verb],
                     [at |-> 0, trace |-> <<>>, err |-> nil,
                      returned |-> FALSE])
    /\ UNCHANGED <<pools, conns, lock, th, held, server>>

\* the next statement of f runs, and succeeds or fails
Statement(ok) ==
    /\ fn.name = "f"
    /\ ~fn.out.returned
    /\ fn' = [fn EXCEPT !.out = ran(@, body(fn.in.verb)[fn.out.at + 1], ok,
                                    Len(body(fn.in.verb)))]
    /\ UNCHANGED <<pools, conns, lock, th, held, server>>

FnNext ==
    \/ \E key \in PickKeys, n \in 1..MaxPools : Pick(key, n)
    \/ \E verb \in Verbs : Begin(verb)
    \/ \E ok \in BOOLEAN : Statement(ok)
    \/ \E instances \in NewLists, opt \in DialOptions :
         \E i \in DOMAIN instances : DialOf(instances, opt, i)
    \/ \E T \in Types \cup ChanTypes : \E v \in Values(T) : Encode(T, v)
    \/ \E T \in Types, b \in Payloads : Decode(T, b)
    \/ \E verb \in {"Increment", "Decrement"}, T \in CountTypes :
         \E r \in CountLines : CountResult(verb, T, r)
    \/ \E verb \in Verbs, r \in WireReplies : ReadReply(verb, r)
    \/ \E cmd \in {"set", "add"}, now \in Clocks, expiration \in WireTTLs :
         \E item \in Items : WriteHeader(cmd, now, expiration, item)
    \/ \E instances \in NewLists, idle \in 0..MaxIdle :
         NewCollection(instances, idle)
    \/ \E prefix \in {<<>>, KeyPrefix} : StartCounts(prefix)
    \/ Count

FnSpec == Init /\ [][FnNext]_vars

\* ------------------------------- MultiSpec: SetMulti, AddMulti, GetMulti
\* fn is the frame of the helper: its name, its arguments (the type T and
\* the items, or the keys) and, in out, the index i of the item whose call
\* was made last, the errors and the results appended so far, and what it
\* returned.
MultiVerb == [SetMulti |-> "Set", AddMulti |-> "Add", GetMulti |-> "Get"]

Pair(a, b) == [A |-> a, B |-> b]

\* errors.Join(errs...): nil when there is no error, else one error that
\* wraps them all in their order
Join(errs) == [isNil |-> errs = <<>>, wraps |-> errs]

\* the loop that ends at the first error
moreUntilError(i, items, err) == i < Len(items) /\ err = nil

\* for _, item := range items: there is another item, whatever the call for
\* the last one returned
more(i, items, err) == i < Len(items)

\* the lists SetMulti and AddMulti are called with (T is string): none, two
\* keys, a key that is not valid first, one key twice, a key that is not
\* valid between two others
MultiItems ==
    {<<>>,
     <<Pair(KeyA, <<97>>), Pair(KeyB, <<49>>)>>,
     <<Pair(KeySpace, <<97>>), Pair(KeyA, <<49>>)>>,
     <<Pair(KeyA, <<97>>), Pair(KeyA, <<49>>)>>,
     <<Pair(KeyA, <<97>>), Pair(KeyTooLong, <<49>>), Pair(KeyB, <<49>>)>>}

\* the lists of keys GetMulti is called with
MultiKeys ==
    {<<>>, <<KeyA, KeyB>>, <<KeyA, KeyA>>, <<KeyA, KeySpace, KeyB>>,
     <<KeyB, KeyA>>}

\* the types GetMulti is called for
MultiTypes == {"string", "int"}

\* the goroutine at the call for item i of the frame
enteredItem(name, T, items, i) ==
    IF name = "GetMulti"
    THEN enteredTyped("Get", items[i], 0, T, Zero(T))
    ELSE enteredTyped(MultiVerb[name], items[i].A, 0, T, items[i].B)

\* the frame before the first item
started == [i |-> 0, errs |-> <<>>, results |-> <<>>, returned |-> FALSE,
            err |-> Join(<<>>)]

\* the frame after the call for an item returned err and value: the error
\* is appended (Set, Add), the pair of the result is appended (Get)
appended(name, out, err, value, T) ==
    [out EXCEPT
       !.errs = IF name # "GetMulti" /\ err # nil THEN Append(@, err) ELSE @,
       !.results = IF name # "GetMulti" THEN @
                   ELSE IF err # nil THEN Append(@, Pair(Zero(T), err))
                   ELSE Append(@, Pair(value, nil))]

\* return errors.Join(errs...), return results
returned(out) == [out EXCEPT !.returned = TRUE, !.err = Join(out.errs)]

\* the helper is called: it calls the verb for the first item, or returns
\* at once when there is none
CallMulti(t, name, T, items) ==
    /\ th[t].pc \in {"idle", "done"}
    /\ fn.name \in DOMAIN MultiVerb => fn.out.returned
    /\ IF more(0, items, nil)
       THEN /\ fn' = applied(name, [type |-> T, items |-> items],
                             [started EXCEPT !.i = 1])
            /\ th' = [th EXCEPT ![t] = enteredItem(name, T, items, 1)]
       ELSE /\ fn' = applied(name, [type |-> T, items |-> items],
                             returned(started))
            /\ th' = [th EXCEPT ![t] = idleThread]
    /\ UNCHANGED <<pools, conns, lock, held, server>>

\* the call for an item has returned: the body of the loop, then the call
\* for the next item, or the return after the last
MultiStep(t) ==
    /\ fn.name \in DOMAIN MultiVerb
    /\ ~fn.out.returned
    /\ th[t].pc = "done"
    /\ LET out == appended(fn.name, fn.out, th[t].err, th[t].value,
                           fn.in.type)
       IN IF more(fn.out.i, fn.in.items, th[t].err)
          THEN /\ fn' = [fn EXCEPT !.out = [out EXCEPT !.i = @ + 1]]
               /\ th' = [th EXCEPT ![t] =
                           enteredItem(fn.name, fn.in.type, fn.in.items,
                                       fn.out.i + 1)]
          ELSE /\ fn' = [fn EXCEPT !.out = returned(out)]
               /\ th' = [th EXCEPT ![t] = idleThread]
    /\ UNCHANGED <<pools, conns, lock, held, server>>

MultiNext ==
    \/ \E name \in {"SetMulti", "AddMulti"}, items \in MultiItems :
         CallMulti(Main, name, "string", items)
    \/ \E T \in MultiTypes, keys \in MultiKeys :
         CallMulti(Main, "GetMulti", T, keys)
    \/ MultiStep(Main)
    \/ Lock(Main)
    \/ GetConn(Main)
    \/ \E ok \in BOOLEAN : Dial(Main, ok)
    \/ \E io \in IOResults \ {"read fails"}, refuses \in BOOLEAN :
         Send(Main, io, refuses)
    \/ \E ok \in BOOLEAN : Receive(Main, ok)
    \/ SetConn(Main)

MultiSpec == ServerInit /\ [][MultiNext]_vars

\* ------------------------------------- Spec: one goroutine, all the verbs
\* what a verb is called with besides key and arg: Set and Add the string
\* "a" or a channel, Get the type to decode into
ExchangeTypes(verb) ==
    IF verb \in {"Set", "Add"} THEN {"string"} \cup ChanTypes
    ELSE IF verb = "Get" THEN ServerTypes
    ELSE {"none"}

ExchangeValues(verb, T) ==
    IF verb \in {"Set", "Add"}
    THEN IF T \in ChanTypes THEN {Channel} ELSE {<<97>>}
    ELSE IF verb = "Get" THEN {Zero(T)}
    ELSE {<<>>}

\* the calls made with a key: every one with the keys "a" and "b"; with the
\* other keys an expiration or a delta of 0 and a string, every verb when
\* check refuses the key, Set and Get when it lets the key pass
Called(verb, key, arg, T) ==
    key \notin DoKeys
      => /\ arg = 0
         /\ T \in {"string", "none"}
         /\ check(key) = nil => verb \in {"Set", "Get"}

\* what the connection's reader yields: any of the replies when the request
\* went out and the read does not fail, and nothing otherwise
Answers(io) == IF io = "ok" THEN Replies ELSE {<<>>}

Next ==
    \/ \E verb \in Verbs, key \in Keys :
         \E arg \in Args(verb) :
           \E T \in ExchangeTypes(verb) :
             \E v \in ExchangeValues(verb, T) :
               /\ Called(verb, key, arg, T)
               /\ Call(Main, verb, key, arg, T, v)
    \/ CallClose(Main)
    \/ Lock(Main)
    \/ GetConn(Main)
    \/ \E ok \in BOOLEAN : Dial(Main, ok)
    \/ \E io \in IOResults :
         \E line \in Answers(io) : Exchange(Main, io, line)
    \/ SetConn(Main)
    \/ Close(Main)

Spec == Init /\ [][Next]_vars

\* ------------------- CapSpec: a Client that is never closed, any idle count
\* the counts given to SetIdleConnections
IdleCounts == {0 - 2, 0 - 1, 0, 1}

CapNext ==
    \/ \E verb \in Verbs, key \in Keys :
         \E arg \in Args(verb) :
           \E T \in ExchangeTypes(verb) :
             \E v \in ExchangeValues(verb, T) :
               /\ Called(verb, key, arg, T)
               /\ Call(Main, verb, key, arg, T, v)
    \/ Lock(Main)
    \/ GetConn(Main)
    \/ \E ok \in BOOLEAN : Dial(Main, ok)
    \/ \E io \in IOResults :
         \E line \in Answers(io) : Exchange(Main, io, line)
    \/ SetConn(Main)

\* New(instances, SetIdleConnections(count)): c.idle = count, then
\* iopool.New(c.addrs, c.idle)
CapSpec ==
    InitWith({<<"a:11211", "b:11211">>}, IdleCounts) /\ [][CapNext]_vars

\* ------------------------------- ConcSpec: goroutines inside do and Close
ConcNext ==
    \/ \E t \in Threads, key \in DoKeys : Do(t, key)
    \/ \E t \in Threads : CallClose(t)
    \/ \E t \in Threads : Lock(t)
    \/ \E t \in Threads : GetConn(t)
    \/ \E t \in Threads, ok \in BOOLEAN : Dial(t, ok)
    \/ \E t \in Threads, err \in {nil, ErrTransport} : Run(t, err)
    \/ \E t \in Threads : SetConn(t)
    \/ \E t \in Threads : Close(t)

ConcSpec == Init /\ [][ConcNext]_vars

TypeOK ==
    /\ lock \in 0..NumThreads
    /\ Len(conns) <= MaxConns
    /\ \A i \in DOMAIN pools : pools[i].idle \in {closed} \cup PoolCaps

\* ================================================================ claims
Last == th[Main]
IsOpen(p) == p.idle # closed
AtCapacity(p) == Len(p.available) >= p.idle

\* ---------------------------------------------------------------- C1
\* C1: in every state of a pool driven by any sequence of get, free and
\* close, the idle store holds at most idle connections while the pool is
\* open and none once it is closed; and a free on an open pool whose idle
\* store is at capacity closes the connection and stores nothing.
C1_BoundInv ==
    \A i \in DOMAIN pools :
      /\ IsOpen(pools[i]) => Len(pools[i].available) <= pools[i].idle
      /\ ~IsOpen(pools[i]) => Len(pools[i].available) = 0

C1_FullFreeCloses ==
    \A c \in held :
      LET i == conns[c].pool IN
        (/\ c \notin held'
         /\ IsOpen(pools[i])
         /\ AtCapacity(pools[i]))
        => /\ ~conns'[c].open
           /\ pools'[i].available = pools[i].available

C1_IdleBound == []C1_BoundInv /\ [][C1_FullFreeCloses]_vars

\* a healthy connection was freed to an open pool that was full, and is closed
C1_Witness ==
    /\ Last.verb = "pool.free"
    /\ IsOpen(pools[Last.arg])
    /\ pools[Last.arg].idle >= 1
    /\ Len(pools[Last.arg].available) = pools[Last.arg].idle
    /\ ~conns[Last.conn].failure
    /\ ~conns[Last.conn].open

\* ---------------------------------------------------------------- C2
\* C2: once a pool is closed it stays closed and its idle store stays
\* empty; the close closes every connection that was idle; and every get on
\* the closed pool returns ErrClientClosed, no connection, and dials nothing.
C2_ClosedStep ==
    \A i \in DOMAIN pools :
      /\ (IsOpen(pools[i]) /\ ~IsOpen(pools'[i]))
           => /\ pools'[i].available = <<>>
              /\ \A c \in Range(pools[i].available) : ~conns'[c].open
      /\ ~IsOpen(pools[i])
           => /\ ~IsOpen(pools'[i])
              /\ pools'[i].available = <<>>
              /\ (th' # th /\ Last'.verb = "pool.get" /\ Last'.arg = i)
                   => /\ Last'.err = ErrClientClosed
                      /\ Last'.conn = 0
                      /\ conns' = conns
                      /\ held' = held

C2_CloseIsFinal == [][C2_ClosedStep]_vars

\* a get was made on a closed pool whose idle connection the close closed
C2_Witness ==
    /\ Last.verb = "pool.get"
    /\ ~IsOpen(pools[Last.arg])
    /\ Last.err = ErrClientClosed
    /\ \E c \in DOMAIN conns :
         /\ conns[c].pool = Last.arg
         /\ c \notin held
         /\ ~conns[c].failure
         /\ ~conns[c].open

\* ---------------------------------------------------------------- C3
\* C3: SetHealth with a non-nil error sets the failure flag; the flag, once
\* set, is never cleared (not by SetHealth(nil) either); no idle store ever
\* holds a connection whose flag is set; and a free of such a connection
\* closes it, whatever the state of the pool.
C3_NoUnhealthyIdle ==
    \A i \in DOMAIN pools :
      \A c \in Range(pools[i].available) : ~conns[c].failure

C3_UnhealthyStep ==
    /\ (th' # th /\ Last'.verb = "SetHealth" /\ Last'.err # nil)
         => conns'[Last'.conn].failure
    /\ \A c \in DOMAIN conns :
         conns[c].failure
           => /\ conns'[c].failure
              /\ (c \in held /\ c \notin held') => ~conns'[c].open

C3_UnhealthyNeverIdle == []C3_NoUnhealthyIdle /\ [][C3_UnhealthyStep]_vars

\* an unhealthy connection was freed to an open pool with room, and is closed
C3_Witness ==
    /\ Last.verb = "pool.free"
    /\ IsOpen(pools[Last.arg])
    /\ Len(pools[Last.arg].available) < pools[Last.arg].idle
    /\ conns[Last.conn].failure
    /\ ~conns[Last.conn].open

\* SetHealth(nil) was called on a connection already marked unhealthy
C3_WitnessNil ==
    /\ Last.verb = "SetHealth"
    /\ Last.err = nil
    /\ conns[Last.conn].failure

\* ---------------------------------------------------------------- C4
\* C4: in every state of a Client used by concurrent goroutines (verbs and
\* Close interleaved), no connection is held by two goroutines and no
\* connection held by a goroutine is in the idle store of any pool.
Holds(t, c) == c # 0 /\ th[t].conn = c

C4_ExclusiveOwner ==
    \A c \in DOMAIN conns :
      /\ Cardinality({t \in Threads : Holds(t, c)}) <= 1
      /\ (\E t \in Threads : Holds(t, c))
           => \A i \in DOMAIN pools : c \notin Range(pools[i].available)

\* two goroutines hold two connections of one pool, one of them inside
\* setConn about to release its connection to a store that has room
C4_Witness ==
    \E t, u \in Threads :
      /\ t # u
      /\ th[t].pc = "free"
      /\ th[u].pc = "run"
      /\ conns[th[t].conn].pool = conns[th[u].conn].pool
      /\ pools[conns[th[t].conn].pool].idle >= 1

\* ---------------------------------------------------------------- C5
\* C5: Client.Close leaves every pool closed when it returns; from then on
\* every verb called with a valid key (and, for Increment and Decrement, a
\* non-negative delta) returns ErrClientClosed, whatever the key and the
\* pool it routes to, never gets as far as a dial or a connection, and the
\* number of connections ever dialed does not grow.
AllClosed == \A i \in DOMAIN pools : ~IsOpen(pools[i])

C5_ClosedInv ==
    /\ (Last.verb = "Close" /\ Last.pc = "done") => AllClosed
    /\ (AllClosed /\ Last.verb \in Verbs
          /\ precheck(Last.verb, Last.key, Last.arg) = nil)
         => /\ Last.pc \in {"getConn", "get", "done"}
            /\ Last.conn = 0
            /\ Last.pc = "done" => Last.err = ErrClientClosed

C5_ClosedStep ==
    AllClosed => (AllClosed' /\ Len(conns') = Len(conns))

C5_ClosedClientFails == []C5_ClosedInv /\ [][C5_ClosedStep]_vars

\* after Close, a verb on a Client that had dialed returned ErrClientClosed
C5_Witness ==
    /\ AllClosed
    /\ Last.verb \in Verbs
    /\ Last.pc = "done"
    /\ Last.err = ErrClientClosed
    /\ choice(Last.key) = 2
    /\ Len(conns) > 0

\* ---------------------------------------------------------------- C6
\* C6: after Client.Close, with operations still in flight: a connection a
\* goroutine holds is open (Close closed only idle ones), every idle store
\* is and stays empty, and as soon as no goroutine holds a connection every
\* connection the Client dialed is closed.
C6_CloseInFlight ==
    /\ \A t \in Threads :
         th[t].conn # 0 => conns[th[t].conn].open
    /\ AllClosed =>
         /\ \A i \in DOMAIN pools : pools[i].available = <<>>
         /\ (\A t \in Threads : th[t].conn = 0)
              => \A c \in DOMAIN conns : ~conns[c].open

\* the Client is closed while a goroutine still holds an open connection and
\* another connection, released after the Close, is closed though healthy
C6_Witness ==
    /\ AllClosed
    /\ \E t \in Threads :
         /\ th[t].pc \in {"run", "setConn"}
         /\ conns[th[t].conn].open
    /\ \E c \in DOMAIN conns : ~conns[c].open /\ ~conns[c].failure

\* ---------------------------------------------------------------- C7
\* C7: whenever a goroutine is blocked in the dial of one pool, a goroutine
\* about to acquire from a different pool can take its step (it can enter
\* getConn and go on to its own pool).
C7_PoolsIndependent ==
    \A t, u \in Threads :
      (/\ th[t].pc = "dial"
       /\ th[u].pc = "getConn"
       /\ choice(th[t].key) # choice(th[u].key))
      => ENABLED Lock(u)

\* ---------------------------------------------------------------- C8
\* the replies of the text protocol to the command of a verb, among Replies:
\* to set and add a storage reply, to get a value block or END alone, to
\* delete DELETED or NOT_FOUND, to incr and decr a number, NOT_FOUND or the
\* CLIENT_ERROR of a value that is not a number
Grammar(verb) ==
    CASE verb \in {"Set", "Add"} -> {STORED, NOT_STORED, EXISTS}
      [] verb = "Get" -> {END, ValueA, ValueOverflow}
      [] verb = "Delete" -> {DELETED, NOT_FOUND}
      [] OTHER -> {NumberLine, NOT_FOUND, NonNumericLine}

\* the operation of the call c ended with a transport error, or read a reply
\* that is not of the grammar of its verb
Failed(c) ==
    \/ c.err = ErrTransport
    \/ (c.reply # <<>> /\ c.reply \notin Grammar(c.verb))

\* C8: when the function of a verb has ended with a transport error or on a
\* reply outside the grammar of the verb, whether it returned or left by a
\* panic, the connection is marked unhealthy; a connection marked unhealthy
\* that no goroutine holds is closed and in no idle store; and a connection
\* handed out by getConn is healthy.
C8_FailedConnDiscarded ==
    /\ (Last.pc \in {"setConn", "free", "panic"} /\ Failed(Last))
         => conns[Last.conn].failure
    /\ Last.pc = "run" => ~conns[Last.conn].failure
    /\ \A c \in DOMAIN conns :
         (conns[c].failure /\ Last.conn # c)
           => /\ ~conns[c].open
              /\ \A i \in DOMAIN pools : c \notin Range(pools[i].available)

\* ---------------------------------------------------------------- C9
\* the keys check lets pass: 1 to 250 characters, none of the class \s
ValidKey(key) ==
    /\ KeyLen(key) \in 1..250
    /\ \A i \in DOMAIN key : key[i].c \notin {9, 10, 12, 13, 32}

\* the white space of Unicode (the property White_Space), which holds the
\* white space of ASCII: tab, line feed, vertical tab, form feed, carriage
\* return and space
WhiteSpace ==
    {9, 10, 11, 12, 13, 32, 133, 160, 5760} \cup (8192..8202)
      \cup {8232, 8233, 8239, 8287, 12288}

\* len(key): the number of bytes of the key
RECURSIVE ByteLen(_)
ByteLen(key) ==
    IF key = <<>> THEN 0
    ELSE Head(key).n * Len(Utf8(Head(key).c)) + ByteLen(Tail(key))

\* a key that is empty, longer than 250 bytes or holds a white space
NotAKey(key) ==
    \/ ByteLen(key) = 0
    \/ ByteLen(key) > 250
    \/ KeyChars(key) \cap WhiteSpace # {}

\* C9: a verb called with a key that is empty, longer than 250 bytes or
\* holds a white space character returns ErrKeyNotValid at once, holding no
\* connection, and the call changes no pool, no connection and not the
\* lock; a key of 1 to 250 bytes without white space is never answered with
\* ErrKeyNotValid.
C9_KeyInv ==
    Last.verb \in Verbs =>
      IF NotAKey(Last.key)
      THEN /\ Last.pc = "done"
           /\ Last.err = ErrKeyNotValid
           /\ Last.conn = 0
      ELSE Last.err # ErrKeyNotValid

C9_KeyStep ==
    (Last'.verb \in Verbs /\ NotAKey(Last'.key))
      => (pools' = pools /\ conns' = conns /\ lock' = lock)

C9_KeyCheckedFirst == []C9_KeyInv /\ [][C9_KeyStep]_vars

\* --------------------------------------------------------------- C10
\* C10: a Set or Add called with a valid key and a non-zero expiration
\* shorter than one second never acquires or dials a connection, and when
\* it has returned it has returned ErrExpiration.
ShortTTL(t) ==
    /\ th[t].verb \in {"Set", "Add"}
    /\ ValidKey(th[t].key)
    /\ th[t].arg # 0
    /\ th[t].arg < Second

C10_ExpirationBeforeIO ==
    ShortTTL(Main) =>
      /\ Last.conn = 0
      /\ Last.pc \notin {"dial", "run", "setConn", "free"}
      /\ Last.pc = "done" => Last.err = ErrExpiration

\* --------------------------------------------------------------- C11
\* C11: an Increment or Decrement called with a negative delta (and a valid
\* key) has returned ErrNegativeInc as soon as it is called: it holds no
\* connection, and the call changes no pool, no connection, not the lock and
\* nothing the server stores, whether or not the key holds a counter and
\* whether or not the Client is closed.
NegativeCall(c) == c.verb \in {"Increment", "Decrement"} /\ c.arg < 0

C11_NegativeInv ==
    NegativeCall(Last) =>
      /\ Last.pc = "done"
      /\ Last.err = ErrNegativeInc
      /\ Last.conn = 0

C11_NegativeStep ==
    NegativeCall(Last') =>
      /\ pools' = pools
      /\ conns' = conns
      /\ lock' = lock
      /\ server' = server

C11_NegativeDeltaFirst == []C11_NegativeInv /\ [][C11_NegativeStep]_vars

\* an Increment by -1 was refused on a key that holds a counter, while a
\* connection to the server sat idle
C11_Witness ==
    /\ Last.verb = "Increment"
    /\ Last.arg < 0
    /\ Last.err = ErrNegativeInc
    /\ server[Last.key].stored
    /\ IsDigits(server[Last.key].data)
    /\ \E i \in DOMAIN pools : pools[i].available # <<>>

\* a Decrement by -1 was refused on a closed Client for a key never stored
C11_WitnessClosed ==
    /\ Last.verb = "Decrement"
    /\ Last.arg < 0
    /\ Last.err = ErrNegativeInc
    /\ ~server[Last.key].stored
    /\ AllClosed

\* --------------------------------------------------------------- C12
\* the exclusive or of x and bytes given as runs (byte c repeated n times),
\* bit by bit: bit k of the result is set when an odd number of x and the
\* bytes have bit k set
Bit(b, k) == (b \div (2 ^ k)) % 2

RECURSIVE Ones(_, _)
Ones(runs, k) ==
    IF runs = <<>> THEN 0
    ELSE Bit(Head(runs).c, k) * Head(runs).n + Ones(Tail(runs), k)

RECURSIVE XorBits(_, _, _)
XorBits(x, runs, k) ==
    IF k > 7 THEN 0
    ELSE ((Bit(x, k) + Ones(runs, k)) % 2) * (2 ^ k)
         + XorBits(x, runs, k + 1)

\* the bytes of the key, each character's UTF-8 bytes as one run apiece
RECURSIVE ByteRuns(_)
ByteRuns(key) ==
    IF key = <<>> THEN <<>>
    ELSE [i \in DOMAIN Utf8(Head(key).c) |->
            Rep(Utf8(Head(key).c)[i], Head(key).n)]
         \o ByteRuns(Tail(key))

\* the low byte of every character of the key
LowRuns(key) == [i \in DOMAIN key |-> Rep(key[i].c % 256, key[i].n)]

\* C12 as stated: pick gives 0 for one pool and otherwise
\* (37 XOR b1 XOR ... XOR bn) mod N over the bytes b1..bn of the key.
C12_PickOverBytes ==
    fn.name = "pick" =>
      fn.out = IF fn.in.n = 1 THEN 0
               ELSE XorBits(37, ByteRuns(fn.in.key), 0) % fn.in.n

\* C12 amended: pick gives 0 for one pool and otherwise
\* (37 XOR c1 XOR ... XOR cn) mod N, where c1..cn are the low bytes of the
\* characters (code points) of the key, which for an ASCII key are its
\* bytes; the result is in 0..N-1.
C12_PickOverChars ==
    fn.name = "pick" =>
      /\ fn.out \in 0..(fn.in.n - 1)
      /\ fn.out = IF fn.in.n = 1 THEN 0
                  ELSE XorBits(37, LowRuns(fn.in.key), 0) % fn.in.n

\* pick was applied to a key that is not ASCII, among three pools
C12_Witness ==
    /\ fn.name = "pick"
    /\ fn.in.key = KeyAccent
    /\ fn.in.n = 3
    /\ fn.out = 0

\* --------------------------------------------------------------- C13
\* C13: when the loop of the distribution tests has routed all 1000 keys
\* ("0".."999", or "key0".."key999") across 3 pools, every one of the 3
\* pool indices has been picked more than 200 times.
C13_Distribution ==
    (fn.name = "counts" /\ fn.in.i = 1000) =>
      \A idx \in 0..2 : fn.out[idx] > 200

\* the loop over "key0".."key999" is over, with its three counts
C13_Witness ==
    /\ fn.name = "counts"
    /\ fn.in.prefix = KeyPrefix
    /\ fn.in.i = 1000
    /\ fn.out[0] = 365 /\ fn.out[1] = 327 /\ fn.out[2] = 308

\* the loop over "0".."999" is over, with its three counts
C13_WitnessDecimal ==
    /\ fn.name = "counts"
    /\ fn.in.prefix = <<>>
    /\ fn.in.i = 1000
    /\ fn.out[0] = 298 /\ fn.out[1] = 372 /\ fn.out[2] = 330

\* --------------------------------------------------------------- C14
\* the addresses of the model in sorted order, and a list of them sorted
AddrOrder == <<"a:11211", "b:11211", "c:11211">>

RECURSIVE SortedFrom(_, _)
SortedFrom(set, i) ==
    IF i > Len(AddrOrder) THEN <<>>
    ELSE (IF AddrOrder[i] \in set THEN <<AddrOrder[i]>> ELSE <<>>)
         \o SortedFrom(set, i + 1)

Sorted(instances) == SortedFrom(Range(instances), 1)

\* C14: the pools of a Collection built from a list of addresses are in the
\* sorted order of the addresses, so that every key is routed to the address
\* it is routed to when the list is given sorted.
C14_SortedPools ==
    fn.name = "New" =>
      /\ [i \in DOMAIN fn.out |-> fn.out[i].address] = Sorted(fn.in.instances)
      /\ \A key \in PickKeys :
           fn.out[pick(key, Len(fn.out)) + 1].address
             = Sorted(fn.in.instances)[pick(key, Len(fn.out)) + 1]

\* --------------------------------------------------------------- C15
\* C15: in every state of a Client used by concurrent goroutines (verbs and
\* Close interleaved), a connection a goroutine holds was dialed by the pool
\* its key routes to, which is the pool setConn will release it to; and every
\* connection in the idle store of a pool was dialed by that pool.
C15_SamePool ==
    /\ \A t \in Threads :
         th[t].conn # 0 => conns[th[t].conn].pool = choice(th[t].key)
    /\ \A i \in DOMAIN pools :
         \A c \in Range(pools[i].available) : conns[c].pool = i

\* both pools hold an idle connection that a goroutine released
C15_Witness ==
    /\ \A i \in DOMAIN pools : pools[i].available # <<>>
    /\ \E t \in Threads : th[t].pc = "done" /\ th[t].verb = "do"

\* --------------------------------------------------------------- C16
\* C16: the expiration written in the header of a Set or Add for a TTL d is
\* 0 when d = 0; the whole seconds of d when d is from 1 second to 2,592,000
\* seconds (2592000 for exactly that); and, when d is more than 2,592,000
\* seconds, the Unix time in whole seconds of the clock's now plus d.
C16_Relative(d, n) ==
    /\ n \in 0..(4 * 2592000)
    /\ n * Second <= d
    /\ d < (n + 1) * Second

C16_WireExpiration ==
    fn.name = "header" =>
      LET d == fn.in.expiration
          now == fn.in.now
      IN /\ d = 0 => (fn.out.written /\ fn.out.exptime = 0)
         /\ (Second <= d /\ d <= 2592000 * Second)
              => /\ fn.out.written
                 /\ C16_Relative(d, fn.out.exptime)
         /\ d = 2592000 * Second => fn.out.exptime = 2592000
         /\ d > 2592000 * Second
              => /\ fn.out.written
                 /\ C16_Relative(now.sub + d, fn.out.exptime - now.sec)

\* --------------------------------------------------------------- C17
\* the reply line the function of a store command has read, if there is one
HasLine(r) == \E i \in DOMAIN r : i <= 4096 /\ r[i] = 10
FirstLine(r) ==
    SubSeq(r, 1, CHOOSE i \in DOMAIN r :
                   r[i] = 10 /\ \A j \in 1..(i - 1) : r[j] # 10)

\* C17: for the reply line read by Set, "STORED\r\n" gives no error,
\* "NOT_STORED\r\n" gives ErrNotStored and every other line gives an
\* unexpected-response error that carries the line; for Add the same holds
\* except that "EXISTS\r\n" gives ErrConflict.
C17_StoreReply ==
    (fn.name = "reply" /\ fn.in.verb \in {"Set", "Add"} /\ HasLine(fn.in.r))
      => LET line == FirstLine(fn.in.r) IN
           CASE line = <<83, 84, 79, 82, 69, 68, 13, 10>> ->
                  fn.out.err = nil
             [] line = <<78, 79, 84, 95, 83, 84, 79, 82, 69, 68, 13, 10>> ->
                  fn.out.err = ErrNotStored
             [] line = <<69, 88, 73, 83, 84, 83, 13, 10>>
                  /\ fn.in.verb = "Add" ->
                  fn.out.err = ErrConflict
             [] OTHER ->
                  fn.out.err = ErrUnexpected /\ fn.out.text = line

\* Add read "EXISTS\r\n" and returned ErrConflict
C17_Witness ==
    /\ fn.name = "reply"
    /\ fn.in.verb = "Add"
    /\ fn.in.r = EXISTS
    /\ fn.out.err = ErrConflict

\* Set read "EXISTS\r\n" and returned an error carrying that line
C17_WitnessSet ==
    /\ fn.name = "reply"
    /\ fn.in.verb = "Set"
    /\ fn.in.r = EXISTS
    /\ fn.out.err = ErrUnexpected
    /\ fn.out.text = EXISTS

\* --------------------------------------------------------------- C18
\* the call of verb writes its command in this step: the server carries it
\* out or refuses it and the reply is on its way (pc "read"), or nothing
\* reaches the server and the call has its error (pc "setConn")
Sent(verb) ==
    /\ Last.verb = verb
    /\ Last.pc = "run"
    /\ Last'.pc \in {"read", "setConn"}

\* the call of verb reads the reply in this step and its function returns
Received(verb) ==
    /\ Last.verb = verb
    /\ Last.pc = "read"
    /\ Last'.pc = "setConn"

\* errors that say the exchange itself did not go through: the socket
\* failed, the expiration was refused before anything was written, or the
\* server refused the command
NoExchange == {ErrTransport, ErrExpiration, ErrUnexpected, ErrScan}

\* the call of this step read the answer of a server that carried it out
Answered == Last'.reply \notin {<<>>, <<69, 82, 82, 79, 82, 13, 10>>}

\* C18: against a server, an Add on a key that holds no value is answered
\* STORED unless the server refuses it, and then the server holds the added
\* item; an Add on a key that holds a value is answered NOT_STORED unless
\* the server refuses it, and leaves what the server holds as it is; the Add
\* that reads STORED returns no error and the Add that reads NOT_STORED
\* returns ErrNotStored; a Get that succeeds returns what the server holds
\* for the key, and changes nothing.
C18_AddStep ==
    /\ Sent("Add") =>
         /\ Last'.pc = "setConn"
              => (Last'.err \in NoExchange /\ server' = server)
         /\ Last'.pc = "read" =>
              IF server[Last.key].stored
              THEN /\ Last'.reply \in {NOT_STORED, ERROR}
                   /\ server' = server
              ELSE /\ Last'.reply \in {STORED, ERROR}
                   /\ server' = IF Last'.reply = STORED
                                THEN [server EXCEPT ![Last.key] =
                                        [stored |-> TRUE, data |-> Last.item]]
                                ELSE server
    /\ Received("Add") =>
         /\ server' = server
         /\ Last'.err \in {nil, ErrNotStored} \cup NoExchange
         /\ Last'.err = nil => Last.reply = STORED
         /\ Last'.err = ErrNotStored => Last.reply = NOT_STORED
         /\ Answered
              => Last'.err = IF Last.reply = STORED THEN nil ELSE ErrNotStored
    /\ Sent("Get") => server' = server
    /\ Received("Get") =>
         /\ server' = server
         /\ IF server[Last.key].stored
            THEN /\ Last'.err = IF Answered /\ Last.type = "string" THEN nil
                                ELSE Last'.err
                 /\ Last'.err \in {nil, ErrGob} \cup NoExchange
                 /\ Last'.err = nil => Last'.result = server[Last.key].data
            ELSE /\ Last'.err = IF Answered THEN ErrCacheMiss ELSE Last'.err
                 /\ Last'.err \in {ErrCacheMiss} \cup NoExchange

C18_AddKeepsFirst == [][C18_AddStep]_vars

\* --------------------------------------------------------------- C19
\* the words of a line that ends in \r\n and has three spaces: what is
\* before, between and after them
Word(line, k) ==
    LET sp == {i \in DOMAIN line : line[i] = 32}
        at == [j \in 1..3 |->
                 CHOOSE i \in sp : Cardinality({h \in sp : h < i}) = j - 1]
        lo == IF k = 1 THEN 1 ELSE at[k - 1] + 1
        hi == IF k = 4 THEN Len(line) - 2 ELSE at[k] - 1
    IN SubSeq(line, lo, hi)

\* a header line "VALUE <key> <flags> <byteLen>\r\n": four words with one
\* space between them, the key of bytes that are neither white space nor
\* control characters, the last two words numbers without a sign
IsValueHeader(line) ==
    /\ Len(line) >= 2
    /\ SubSeq(line, Len(line) - 1, Len(line)) = <<13, 10>>
    /\ Cardinality({i \in DOMAIN line : line[i] = 32}) = 3
    /\ Word(line, 1) = <<86, 65, 76, 85, 69>>
    /\ Word(line, 2) # <<>>
    /\ \A i \in DOMAIN Word(line, 2) :
         Word(line, 2)[i] > 32 /\ Word(line, 2)[i] # 127
    /\ IsDigits(Word(line, 3))
    /\ IsDigits(Word(line, 4))

ProtocolErrors == {ErrScan, ErrUnexpected}

\* the bytes of r from position a to position b, as far as r has them
Slice(r, a, b) ==
    IF a > Len(r) THEN <<>>
    ELSE SubSeq(r, a, IF b > Len(r) THEN Len(r) ELSE b)

\* C19: for the response read by Get, a header line "END\r\n" gives
\* ErrCacheMiss; a header VALUE <key> <flags> <byteLen> followed by byteLen
\* bytes, \r\n and the line "END\r\n" gives no error and those bytes; any
\* other header, or any other line where END is due, gives a protocol error
\* and no payload.
C19_GetReply ==
    (fn.name = "reply" /\ fn.in.verb = "Get" /\ HasLine(fn.in.r))
      => LET r == fn.in.r
             line == FirstLine(r)
             size == Decimal(Word(line, 4))
             data == Slice(r, Len(line) + 1, Len(line) + size)
             crlf == Slice(r, Len(line) + size + 1, Len(line) + size + 2)
             after == Slice(r, Len(line) + size + 3, Len(r))
         IN IF line = <<69, 78, 68, 13, 10>>
            THEN fn.out.err = ErrCacheMiss
            ELSE IF ~IsValueHeader(line)
            THEN fn.out.err \in ProtocolErrors /\ fn.out.result = <<>>
            ELSE /\ (Len(data) = size /\ crlf = <<13, 10>>
                       /\ after = <<69, 78, 68, 13, 10>>)
                      => (fn.out.err = nil /\ fn.out.result = data)
                 /\ (HasLine(after)
                       /\ FirstLine(after) # <<69, 78, 68, 13, 10>>)
                      => (fn.out.err \in ProtocolErrors
                          /\ fn.out.result = <<>>)

\* --------------------------------------------------------------- C20
\* a call of Delete has read a reply from the server
DeleteRead ==
    /\ Last.verb = "Delete"
    /\ Last.pc \in {"setConn", "free", "done"}
    /\ Last.reply # <<>>

\* C20: a Delete that has read the server's reply returns no error exactly
\* when the reply is "DELETED\r\n", ErrNotFound exactly when it is
\* "NOT_FOUND\r\n", and an unexpected-response error for every other
\* reply; and against a server a Delete of a key that holds nothing is
\* answered NOT_FOUND and changes nothing, a Delete of a key that holds a
\* value is answered DELETED and leaves the key holding nothing (unless the
\* server refuses it), and the Delete that reads the answer returns what it
\* says, so that a second Delete returns ErrNotFound.
C20_ReplyInv ==
    DeleteRead =>
      /\ Last.err = nil <=> Last.reply = <<68, 69, 76, 69, 84, 69, 68, 13, 10>>
      /\ Last.err = ErrNotFound
           <=> Last.reply = <<78, 79, 84, 95, 70, 79, 85, 78, 68, 13, 10>>
      /\ Last.err \in {nil, ErrNotFound, ErrUnexpected}

C20_DeleteStep ==
    /\ Sent("Delete") =>
         /\ \A k \in DOMAIN server \ {Last.key} : server'[k] = server[k]
         /\ Last'.pc = "setConn"
              => (Last'.err = ErrTransport /\ server' = server)
         /\ Last'.pc = "read" =>
              IF server[Last.key].stored
              THEN /\ Last'.reply \in {DELETED, ERROR}
                   /\ Last'.reply = DELETED => ~server'[Last.key].stored
                   /\ Last'.reply = ERROR => server' = server
              ELSE /\ Last'.reply \in {NOT_FOUND, ERROR}
                   /\ server' = server
    /\ Received("Delete") =>
         /\ server' = server
         /\ Last'.err \in {nil, ErrNotFound, ErrTransport, ErrUnexpected}
         /\ Answered
              => Last'.err = IF Last.reply = DELETED THEN nil ELSE ErrNotFound

C20_Delete == []C20_ReplyInv /\ [][C20_DeleteStep]_vars

\* a Delete returned no error on the reply DELETED and the key holds nothing
C20_Witness ==
    /\ Last.verb = "Delete"
    /\ Last.pc = "done"
    /\ Last.err = nil
    /\ Last.reply = DELETED
    /\ ~server[Last.key].stored

\* a Delete returned ErrNotFound on the reply NOT_FOUND
C20_WitnessNotFound ==
    /\ Last.verb = "Delete"
    /\ Last.pc = "done"
    /\ Last.err = ErrNotFound
    /\ Last.reply = NOT_FOUND

\* a Delete returned an unexpected-response error on the reply ERROR
C20_WitnessOther ==
    /\ Last.verb = "Delete"
    /\ Last.pc = "done"
    /\ Last.err = ErrUnexpected
    /\ Last.reply = ERROR

\* --------------------------------------------------------------- C21
\* the line is an unsigned decimal integer: digits, with white space
\* around them at most, of a value below 1<<64
IsUnsigned(line) ==
    /\ IsDigits(TrimSpace(line))
    /\ InRange(TrimSpace(line), MaxUint64)

\* C21: Increment and Decrement classify the line they read in this order:
\* "NOT_FOUND\r\n" gives ErrNotFound; a line containing "cannot increment or
\* decrement non-numeric value" gives ErrNonNumeric; a line that is an
\* unsigned decimal integer gives that integer and no error; any other line
\* gives an unexpected-response error. On the answers of a server holding
\* "1000", Increment by 2 gives 1002 and Decrement by 2 gives 998.
C21_CountReply ==
    (fn.name = "count" /\ HasLine(fn.in.r)) =>
      LET line == FirstLine(fn.in.r) IN
        /\ IF line = <<78, 79, 84, 95, 70, 79, 85, 78, 68, 13, 10>>
           THEN fn.out.err = ErrNotFound
           ELSE IF Contains(line, NonNumericText)
           THEN fn.out.err = ErrNonNumeric
           ELSE IF IsUnsigned(line)
           THEN /\ fn.out.err = nil
                /\ fn.out.result = Decimal(TrimSpace(line))
           ELSE fn.out.err = ErrUnexpected
        /\ fn.in.r = mcReply(Thousand, fn.in.verb, KeyA, <<>>, 2)
             => /\ fn.out.err = nil
                /\ fn.out.result =
                     IF fn.in.verb = "Increment" THEN 1002 ELSE 998

\* --------------------------------------------------------------- C25
\* the primitive types: []byte, string, and the integer types
Primitive == {"[]byte", "string", "int8", "uint8", "int16", "uint16",
              "int32", "uint32", "int64", "uint64", "int", "uint"}

\* C25: for every primitive type T and every value v of T, encode(v) gives
\* no error and decode[T] of the bytes it gives returns v and no error,
\* negative values of the signed types included.
C25_RoundTrip ==
    (fn.name = "encode" /\ fn.in.type \in Primitive) =>
      /\ fn.out.err = nil
      /\ decode(fn.in.type, fn.out.b) = [v |-> fn.in.v, err |-> nil]

\* a negative int64 was encoded, and decoding gives it back
C25_Witness ==
    /\ fn.name = "encode"
    /\ fn.in.type = "int64"
    /\ fn.in.v = 0 - 65537
    /\ decode("int64", fn.out.b).v = 0 - 65537

\* --------------------------------------------------------------- C26
\* bit k of the two's complement of v, which goes on with the sign
TwoBit(v, k) == IF k < 31 THEN (v \div (2 ^ k)) % 2 ELSE IF v < 0 THEN 1 ELSE 0

\* C26: encode of an 8-, 16-, 32- or 64-bit integer, signed or unsigned,
\* gives 1, 2, 4 or 8 bytes, and 8 for int and uint; bit j of byte i is bit
\* 8i + j of the two's complement of the value (little-endian); a string or
\* a []byte encodes to its own bytes and nothing else.
C26_Layout ==
    fn.name = "encode" =>
      LET T == fn.in.type
          b == fn.out.b
      IN /\ T \in {"int8", "uint8"} => Len(b) = 1
         /\ T \in {"int16", "uint16"} => Len(b) = 2
         /\ T \in {"int32", "uint32"} => Len(b) = 4
         /\ T \in {"int64", "uint64", "int", "uint"} => Len(b) = 8
         /\ T \in IntTypes =>
              \A i \in 0..(Len(b) - 1) :
                /\ b[i + 1] \in 0..255
                /\ \A j \in 0..7 :
                     (b[i + 1] \div (2 ^ j)) % 2 = TwoBit(fn.in.v, 8 * i + j)
         /\ T \in {"[]byte", "string"} => b = fn.in.v

\* the int32 -2 was encoded to the bytes fe ff ff ff
C26_Witness ==
    /\ fn.name = "encode"
    /\ fn.in.type = "int32"
    /\ fn.in.v = 0 - 2
    /\ fn.out.b = <<254, 255, 255, 255>>

\* the uint16 256 was encoded to the bytes 00 01
C26_WitnessOrder ==
    /\ fn.name = "encode"
    /\ fn.in.type = "uint16"
    /\ fn.in.v = 256
    /\ fn.out.b = <<0, 1>>

\* --------------------------------------------------------------- C27
\* C27: decode for a fixed-width integer type returns an error, and no
\* number, when the payload has fewer or more bytes than the type (an empty
\* payload included); it does not crash.
C27_DecodeError ==
    (/\ fn.name = "decode"
     /\ fn.in.type \in IntTypes
     /\ Len(fn.in.b) # Size(fn.in.type))
      => fn.out.err \notin {nil, ErrPanic}

\* --------------------------------------------------------------- C22
\* C22: against a server, a Set of the value v under a key is answered
\* STORED unless the server refuses it, and then the server holds what
\* encode makes of v; the Set that reads the answer STORED returns no error;
\* a Get[T] of a key for which the server holds what encode makes of a
\* value v of type T returns v and no error when the server's answer is
\* read, for a string, an int and a person; a Get of a key for which the
\* server holds nothing returns ErrCacheMiss and the zero value.
C22_SetGetStep ==
    /\ (Sent("Set") /\ Last'.pc = "read") =>
         /\ Last'.reply \in {STORED, ERROR}
         /\ Last'.reply = STORED
              => server'[Last.key] =
                   [stored |-> TRUE,
                    data |-> encode(Last.type, Last.given).b]
    /\ Received("Set") =>
         /\ server' = server
         /\ Answered => Last'.err = nil
         /\ Last'.err = nil => Last.reply = STORED
    /\ (Received("Get") /\ Answered) =>
         /\ \A v \in ServerValues(Last.type) :
              server[Last.key] =
                [stored |-> TRUE, data |-> encode(Last.type, v).b]
                => /\ Last'.err = nil
                   /\ Last'.value = v
         /\ ~server[Last.key].stored
              => /\ Last'.err = ErrCacheMiss
                 /\ Last'.value = Zero(Last.type)

C22_SetGet == [][C22_SetGetStep]_vars

\* --------------------------------------------------------------- C23
\* the frame of a SetMulti or an AddMulti
StoreMulti == fn.name \in {"SetMulti", "AddMulti"}

\* the call for an item of the frame has returned and the loop goes on or
\* ends in this step
LoopStep ==
    /\ fn.name \in {"SetMulti", "AddMulti", "GetMulti"}
    /\ ~fn.out.returned
    /\ Last.pc = "done"
    /\ fn' # fn

\* C23: SetMulti and AddMulti call Set / Add for every item in the order of
\* the input, also after an item failed: when the call for item i returns,
\* its error, if any, is added after the errors so far, and the call for
\* item i + 1 is made with that item's key and value; after the last item
\* the helper returns one error that wraps the errors of all the failing
\* items, and nil exactly when there is none.
C23_Inv ==
    StoreMulti =>
      /\ fn.out.i <= Len(fn.in.items)
      /\ (~fn.out.returned /\ Last.pc # "panic") =>
           /\ Last.verb = (IF fn.name = "SetMulti" THEN "Set" ELSE "Add")
           /\ Last.key = fn.in.items[fn.out.i].A
           /\ Last.given = fn.in.items[fn.out.i].B
      /\ fn.out.returned =>
           /\ fn.out.i = Len(fn.in.items)
           /\ fn.out.err.isNil <=> fn.out.errs = <<>>
           /\ fn.out.err.wraps = fn.out.errs

C23_Step ==
    (LoopStep /\ StoreMulti) =>
      /\ fn'.out.errs = IF Last.err # nil THEN Append(fn.out.errs, Last.err)
                        ELSE fn.out.errs
      /\ IF fn.out.i < Len(fn.in.items)
         THEN ~fn'.out.returned /\ fn'.out.i = fn.out.i + 1
         ELSE fn'.out.returned
      /\ server' = server

C23_MultiStore == []C23_Inv /\ [][C23_Step]_vars

\* SetMulti returned an error that wraps the error of its first item, whose
\* key is not valid, and the server holds the second item
C23_Witness ==
    /\ fn.name = "SetMulti"
    /\ fn.out.returned
    /\ fn.in.items = <<[A |-> KeySpace, B |-> <<97>>],
                       [A |-> KeyA, B |-> <<49>>]>>
    /\ ~fn.out.err.isNil
    /\ fn.out.err.wraps = <<ErrKeyNotValid>>
    /\ server[KeyA] = [stored |-> TRUE, data |-> <<49>>]

\* AddMulti of one key twice returned an error that wraps ErrNotStored
C23_WitnessAdd ==
    /\ fn.name = "AddMulti"
    /\ fn.out.returned
    /\ fn.out.err.wraps = <<ErrNotStored>>

\* SetMulti returned nil
C23_WitnessNil ==
    /\ fn.name = "SetMulti"
    /\ fn.out.returned
    /\ Len(fn.in.items) = 2
    /\ fn.out.err.isNil

\* --------------------------------------------------------------- C24
\* C24: GetMulti returns one result for each key, in the order of the keys
\* (keys given twice and keys that are not valid included): it does not
\* crash; when the Get for key i returns, its pair (the value and nil, or
\* the zero value and the error) is added after the results so far, which
\* stay as they are; the Get in flight is the one for key i.
C24_Inv ==
    fn.name = "GetMulti" =>
      /\ Last.pc # "panic"
      /\ (~fn.out.returned /\ Last.pc # "panic") =>
           /\ Last.verb = "Get"
           /\ Last.key = fn.in.items[fn.out.i]
           /\ Len(fn.out.results) = fn.out.i - 1
      /\ fn.out.returned =>
           /\ Len(fn.out.results) = Len(fn.in.items)
           /\ \A i \in DOMAIN fn.out.results :
                \/ fn.out.results[i].B = nil
                \/ fn.out.results[i].A = Zero(fn.in.type)

C24_Step ==
    (LoopStep /\ fn.name = "GetMulti") =>
      fn'.out.results =
        Append(fn.out.results,
               IF Last.err = nil THEN [A |-> Last.value, B |-> nil]
               ELSE [A |-> Zero(fn.in.type), B |-> Last.err])

C24_GetMulti == []C24_Inv /\ [][C24_Step]_vars

\* --------------------------------------------------------------- C28
\* C28: the dial of a pool of a Client waits for the Client's dial timeout:
\* the duration given to SetDialTimeout, or 5 seconds when the option is not
\* given; and this for every pool of the Client.
C28_DialTimeout ==
    fn.name = "open" =>
      /\ fn.out.client.timeout =
           (IF fn.in.option.set THEN fn.in.option.timeout ELSE 5 * Second)
      /\ fn.out.dial.timeout = fn.out.client.timeout
      /\ fn.out.dial.address = fn.in.instances[fn.in.pool]

\* --------------------------------------------------------------- C29
\* a step of pool.get on pool i
GetStep(i) == th' # th /\ Last'.verb = "pool.get" /\ Last'.arg = i

\* C29: pool.get on an open pool whose idle store is not empty returns the
\* connection that was stored last and takes it from the store, and dials
\* nothing; on an open pool whose idle store is empty it dials, and returns
\* the new connection or the error of the dial, also while connections of
\* the pool are out; a free that stores a connection puts it after those
\* stored before, and nothing else changes an idle store of an open pool.
\* pool.get can always be taken: it waits for nothing.
C29_NoWait == \A i \in DOMAIN pools : ENABLED PoolGet(i, FALSE)

C29_Step ==
    \A i \in DOMAIN pools :
      LET idle == pools[i].available IN
        /\ (GetStep(i) /\ IsOpen(pools[i]) /\ idle # <<>>)
             => /\ Last'.conn = idle[Len(idle)]
                /\ Last'.err = nil
                /\ pools'[i].available = SubSeq(idle, 1, Len(idle) - 1)
                /\ conns' = conns
        /\ (GetStep(i) /\ IsOpen(pools[i]) /\ idle = <<>>)
             => /\ pools'[i].available = <<>>
                /\ \/ /\ Last'.err = nil
                      /\ Last'.conn = Len(conns) + 1
                      /\ Len(conns') = Len(conns) + 1
                      /\ conns'[Last'.conn].pool = i
                   \/ /\ Last'.err = ErrDial
                      /\ Last'.conn = 0
                      /\ conns' = conns
        /\ (IsOpen(pools'[i]) /\ ~GetStep(i))
             => \/ pools'[i].available = idle
                \/ \E c \in held : pools'[i].available = Append(idle, c)

C29_Lifo == []C29_NoWait /\ [][C29_Step]_vars

\* of two idle connections, get returned the one stored last
C29_Witness ==
    /\ Last.verb = "pool.get"
    /\ Last.err = nil
    /\ Last.conn = 2
    /\ pools[Last.arg].available = <<1>>

\* get dialed a second connection while the first was out
C29_WitnessDial ==
    /\ Last.verb = "pool.get"
    /\ Last.err = nil
    /\ Last.conn = 2
    /\ held = {1, 2}
    /\ pools[Last.arg].available = <<>>

\* --------------------------------------------------------------- C30
\* C30: pool.free(conn) puts the connection on the idle store if and only
\* if the pool is open, the connection is not marked unhealthy and the idle
\* store holds fewer connections than idle; in every other case it closes
\* the connection and leaves the idle store as it is; it returns nothing.
C30_FreeStep ==
    \A c \in held :
      c \notin held' =>
        LET i == conns[c].pool
            keeps == /\ IsOpen(pools[i])
                     /\ ~conns[c].failure
                     /\ Len(pools[i].available) < pools[i].idle
        IN /\ Last'.verb = "pool.free"
           /\ Last'.err = nil
           /\ IF keeps
              THEN /\ pools'[i].available = Append(pools[i].available, c)
                   /\ conns'[c] = conns[c]
              ELSE /\ pools'[i].available = pools[i].available
                   /\ ~conns'[c].open
           /\ \A j \in DOMAIN pools \ {i} : pools'[j] = pools[j]

C30_Free == [][C30_FreeStep]_vars

\* a healthy connection was freed to an open pool with room, and is idle
\* and open
C30_Witness ==
    /\ Last.verb = "pool.free"
    /\ IsOpen(pools[Last.arg])
    /\ Last.conn \in Range(pools[Last.arg].available)
    /\ conns[Last.conn].open
    /\ ~conns[Last.conn].failure

\* a connection was freed to a closed pool, and is closed
C30_WitnessClosed ==
    /\ Last.verb = "pool.free"
    /\ ~IsOpen(pools[Last.arg])
    /\ ~conns[Last.conn].failure
    /\ ~conns[Last.conn].open

\* --------------------------------------------------------------- C31
\* C31: a verb whose dial fails returns the error of the dial and holds no
\* connection; from its call to its return no pool and no connection
\* changes (idle stores and capacities are as before the call, nothing is
\* released); the call ends with the first failed dial, and the next thing
\* the goroutine does is a new call by the caller.
C31_Inv ==
    (Last.pc = "done" /\ Last.err = ErrDial)
      => /\ Last.conn = 0
         /\ lock = 0

C31_Step ==
    /\ (Last.pc = "dial" /\ Last'.pc # "run" /\ th' # th)
         => /\ Last'.pc = "done"
            /\ Last'.err = ErrDial
            /\ Last'.conn = 0
            /\ Last'.verb = Last.verb
            /\ Last'.key = Last.key
    /\ (\/ Last'.pc \in {"getConn", "get", "dial"}
        \/ Last'.pc = "done" /\ Last'.err = ErrDial)
         => (pools' = pools /\ conns' = conns)
    /\ (Last.pc = "done" /\ Last.err = ErrDial /\ th' # th)
         => /\ Last'.pc \in {"getConn", "done", "Close"}
            /\ Last'.conn = 0

C31_DialFails == []C31_Inv /\ [][C31_Step]_vars

\* a verb has returned the error of a dial of one pool while the other pool
\* keeps an idle connection
C31_Witness ==
    /\ Last.verb \in Verbs
    /\ Last.pc = "done"
    /\ Last.err = ErrDial
    /\ \E i \in DOMAIN pools :
         i # choice(Last.key) /\ pools[i].available # <<>>

\* --------------------------------------------------------------- C32
\* the steps of the protocol, in the order the claim gives
Protocol(verb) ==
    IF verb \in {"Set", "Add"}
    THEN <<"header", "payload", "crlf", "flush", "read">>
    ELSE <<"header", "flush", "read">>

\* the steps of the protocol among the statements run so far
Wire(trace) ==
    SelectSeq(trace,
              LAMBDA x : x \in {"header", "payload", "crlf", "flush", "read"})

IsPrefix(a, b) == Len(a) <= Len(b) /\ a = SubSeq(b, 1, Len(a))

\* C32: in the function of every verb the steps of the protocol run in the
\* order command line, payload and CRLF (Set and Add only), flush, read: at
\* every point the steps run so far are a beginning of that order, so the
\* reply is read only after the flush has returned without error; and a
\* step that fails is the last one: the function has returned its error.
C32_Inv ==
    fn.name = "f" =>
      /\ IsPrefix(Wire(fn.out.trace), Protocol(fn.in.verb))
      /\ fn.out.err # nil
           => /\ fn.out.returned
              /\ fn.out.err = fn.out.trace[Len(fn.out.trace)]
      /\ \A i \in DOMAIN fn.out.trace :
           fn.out.trace[i] = "read"
             => \E j \in 1..(i - 1) :
                  fn.out.trace[j] = "flush" /\ fn.out.err # "flush"

C32_Step ==
    (fn.name = "f" /\ fn.out.err # nil) => fn' = fn

C32_Order == []C32_Inv /\ [][C32_Step]_vars

\* a Set has written its command line and its payload, and its flush failed
C32_Witness ==
    /\ fn.name = "f"
    /\ fn.in.verb = "Set"
    /\ fn.out.err = "flush"
    /\ Wire(fn.out.trace) = <<"header", "payload", "crlf", "flush">>

\* a Get has run to its end: command line, flush, read
C32_WitnessGet ==
    /\ fn.name = "f"
    /\ fn.in.verb = "Get"
    /\ fn.out.returned
    /\ fn.out.err = nil
    /\ Wire(fn.out.trace) = <<"header", "flush", "read">>

\* --------------------------------------------------------------- C33
\* goroutine t is inside Collection.Get (the dial included), Collection.Return
\* or Collection.Close
InPool(t) == th[t].pc \in {"get", "dial", "free", "closing"}

\* C33: with goroutines calling verbs and Close on one Client, at most one
\* goroutine at a time is inside an acquire, a release or a close of a pool,
\* and it is the one that holds the lock of the Client; every change of an
\* idle store or a capacity is made by that goroutine in one step, and no
\* other goroutine moves in that step.
C33_Inv ==
    /\ Cardinality({t \in Threads : InPool(t)}) <= 1
    /\ \A t \in Threads : InPool(t) <=> lock = t

C33_Step ==
    pools' # pools
      => \E t \in Threads :
           /\ InPool(t)
           /\ lock = t
           /\ th'[t] # th[t]
           /\ \A u \in Threads \ {t} : th'[u] = th[u]

C33_Exclusive == []C33_Inv /\ [][C33_Step]_vars

\* a goroutine is in the dial of a pool while another waits to release a
\* connection of the same pool
C33_Witness ==
    \E t, u \in Threads :
      /\ th[t].pc = "dial"
      /\ th[u].pc = "setConn"
      /\ choice(th[t].key) = choice(th[u].key)

\* a goroutine is inside Close while another waits to acquire
C33_WitnessClose ==
    \E t, u \in Threads :
      /\ th[t].pc = "closing"
      /\ th[u].pc = "getConn"

\* --------------------------------------------------------------- C34
\* the connection a step of getConn or setConn hands out or takes back
Involved == {Last.conn, Last'.conn} \ {0}

\* C34: a step of getConn (Collection.Get, pool.get, its dial) or setConn
\* (Collection.Return, pool.free) for a key changes the idle store of the
\* pool the key routes to and the connection handed out or taken back, and
\* nothing else: every other pool is as it was, no capacity and no address
\* changes, the list of pools keeps its length, and every other connection
\* is as it was. Whether a release stores the connection depends on the
\* store and the capacity of its own pool only.
C34_Step ==
    Last.pc \in {"get", "dial", "free"} =>
      LET i == choice(Last.key) IN
        /\ DOMAIN pools' = DOMAIN pools
        /\ \A j \in DOMAIN pools :
             /\ j # i => pools'[j] = pools[j]
             /\ pools'[j].idle = pools[j].idle
             /\ pools'[j].address = pools[j].address
        /\ \A c \in DOMAIN conns : c \notin Involved => conns'[c] = conns[c]
        /\ \A c \in Involved : c \in DOMAIN conns' /\ conns'[c].pool = i
        /\ (Last.pc = "free" /\ ~conns[Last.conn].failure)
             => (Last.conn \in Range(pools'[i].available)
                   <=> Len(pools[i].available) < pools[i].idle)

C34_Frame == [][C34_Step]_vars

\* a connection was released to a pool and stored, while the other pool keeps
\* its own idle connection
C34_Witness ==
    /\ Last.pc = "done"
    /\ Last.verb \in Verbs
    /\ Last.err = nil
    /\ pools[choice(Last.key)].available # <<>>
    /\ \E j \in DOMAIN pools :
         j # choice(Last.key) /\ pools[j].available # <<>>

\* a verb runs on a connection popped from its pool, which is now empty,
\* while the other pool keeps its idle connection
C34_WitnessGet ==
    /\ Last.pc = "run"
    /\ pools[choice(Last.key)].idle >= 1
    /\ pools[choice(Last.key)].available = <<>>
    /\ \E j \in DOMAIN pools :
         j # choice(Last.key) /\ pools[j].available # <<>>

\* --------------------------------------------------------------- C35
\* C35: when the function of a verb has returned, the connection it used is
\* marked unhealthy exactly when the error is not nil, whichever error it
\* is; and setConn puts the connection into the idle store only when the
\* error is nil: after every other result, a cache miss, a not found, a not
\* stored, a conflict, a non-numeric value, an error of encode and an error
\* of decode among them, it closes the connection and stores nothing.
C35_Inv ==
    Last.pc \in {"setConn", "free"}
      => (conns[Last.conn].failure <=> Last.err # nil)

C35_Step ==
    Last.pc = "free" =>
      LET i == choice(Last.key)
          c == Last.conn
      IN /\ c \in Range(pools'[i].available) => Last.err = nil
         /\ Last.err # nil
              => /\ ~conns'[c].open
                 /\ pools'[i].available = pools[i].available
         /\ Last'.err = Last.err

C35_OnlyNilIdle == []C35_Inv /\ [][C35_Step]_vars

\* the verb has returned err from a pool that is open and has room for an
\* idle connection, and the pool holds none: the connection it used is
\* marked unhealthy and closed
Cost(verb, err) ==
    /\ Last.pc = "done"
    /\ Last.verb = verb
    /\ Last.err = err
    /\ IsOpen(pools[choice(Last.key)])
    /\ pools[choice(Last.key)].idle >= 1
    /\ pools[choice(Last.key)].available = <<>>
    /\ \E c \in DOMAIN conns :
         /\ conns[c].pool = choice(Last.key)
         /\ conns[c].failure
         /\ ~conns[c].open

\* an Add answered EXISTS has returned a conflict, and its connection is
\* closed and not idle
C35_Witness == Cost("Add", ErrConflict)

\* the same for each of the other outcomes
C35_WitnessEncode == Cost("Set", ErrEncode)

C35_WitnessDecode == Cost("Get", ErrGob)

C35_WitnessCacheMiss == Cost("Get", ErrCacheMiss)

C35_WitnessNotStored == Cost("Set", ErrNotStored)

C35_WitnessNotFound == Cost("Delete", ErrNotFound)

C35_WitnessNonNumeric == Cost("Increment", ErrNonNumeric)

\* a verb has returned nil and its connection is idle
C35_WitnessNil ==
    /\ Last.pc = "done"
    /\ Last.verb \in Verbs
    /\ Last.err = nil
    /\ pools[choice(Last.key)].available # <<>>

\* --------------------------------------------------------------- C36
\* no call of a verb is in progress: none was made yet, or the last one has
\* returned or has left by a panic
NoCall == Last.pc \in {"idle", "done", "panic"}

IsIdle(c) == \E i \in DOMAIN pools : c \in Range(pools[i].available)

\* C36: a call of a verb acquires at most one connection, holds none when
\* its acquire failed, and has released the one it acquired when it is over,
\* however it ended; so whenever no call is in progress every connection
\* the Client dialed is idle in its pool or closed.
C36_Balanced ==
    /\ (Last.pc = "done" /\ Last.verb \in Verbs) => Last.conn = 0
    /\ NoCall => \A c \in DOMAIN conns : IsIdle(c) \/ ~conns[c].open

\* --------------------------------------------------------------- C37
\* the idle stores, one after the other
RECURSIVE AllIdle(_)
AllIdle(i) ==
    IF i = 0 THEN <<>> ELSE AllIdle(i - 1) \o pools[i].available

\* C37: in every state reached by goroutines calling verbs and Close, every
\* connection in an idle store is open, is not marked unhealthy and was
\* dialed by the pool whose store it is in, and no connection is in the
\* idle stores twice, neither in one store nor in two.
C37_IdleSound ==
    /\ \A i \in DOMAIN pools :
         \A c \in Range(pools[i].available) :
           /\ c \in DOMAIN conns
           /\ conns[c].open
           /\ ~conns[c].failure
           /\ conns[c].pool = i
    /\ \A a, b \in DOMAIN AllIdle(Len(pools)) :
         a # b => AllIdle(Len(pools))[a] # AllIdle(Len(pools))[b]

\* a pool keeps an idle connection after a call has returned, while another
\* connection it dialed is closed
C37_Witness ==
    \E i \in DOMAIN pools :
      /\ pools[i].available # <<>>
      /\ \E c \in DOMAIN conns :
           /\ conns[c].pool = i
           /\ ~conns[c].open
           /\ c \notin Range(pools[i].available)
      /\ \E t \in Threads : th[t].pc = "done" /\ choice(th[t].key) = i

\* --------------------------------------------------------------- C38
\* C38: on a Client made with any idle count and never closed, no verb
\* returns ErrClientClosed; and with an idle count of zero or less no
\* connection is ever idle.
C38_NeverClosed ==
    /\ Last.err # ErrClientClosed
    /\ \A i \in DOMAIN pools : pools[i].idle <= 0 => pools[i].available = <<>>

\* --------------------------------------------------------------- C39
\* errors.Is for errors made by errors.New, which wrap nothing: the error is
\* the target itself
Is(err, target) == err = target

\* C39: a verb called with a valid key (and no negative delta) on a Client
\* whose Close has returned returns an error that is memc.ErrClientClosed:
\* errors.Is(err, memc.ErrClientClosed) holds for it, and for no error a
\* verb returns on a Client that is not closed.
C39_Sentinel ==
    (Last.verb \in Verbs /\ Last.pc = "done")
      => IF AllClosed /\ precheck(Last.verb, Last.key, Last.arg) = nil
         THEN Is(Last.err, MemcErrClientClosed)
         ELSE ~Is(Last.err, MemcErrClientClosed)

\* --------------------------------------------------------------- C40
\* the unsigned integer u is a value of the type T
Fits(T, u) == Width(T) > 31 \/ u < 2 ^ Width(T)

\* C40: when the line Increment or Decrement reads is an unsigned decimal
\* integer u: if u is a value of the result type T the call returns u and
\* no error; if u is beyond the range of T the call does not return a
\* number other than u together with a nil error.
C40_NoWrap ==
    (fn.name = "count" /\ HasLine(fn.in.r)
       /\ IsUnsigned(FirstLine(fn.in.r)))
      => LET u == Decimal(TrimSpace(FirstLine(fn.in.r))) IN
           IF Fits(fn.in.type, u)
           THEN fn.out.err = nil /\ fn.out.result = u
           ELSE ~(fn.out.err = nil /\ fn.out.result # u)

====
